---- MODULE Spec2Model ----
(***************************************************************************)
(* A model of the OVO Energy Australia integration                         *)
(* (custom_components/ovoenergy_au).                                       *)
(*                                                                         *)
(* Eleven parts of the program are modelled, each with its own             *)
(* specification over the module's variables:                              *)
(*   SpecToken  the API client's token fields (api.py)                     *)
(*   SpecStats  the hourly statistics import of one sensor (sensor.py)     *)
(*   SpecPoll   the coordinator's refresh requests and poll                *)
(*              (coordinator.py, __init__.py)                              *)
(*   SpecClient the client's authenticated data calls and its password     *)
(*              login (api.py)                                             *)
(*   SpecReduce the reduction of interval data to a snapshot               *)
(*              (coordinator.py)                                           *)
(*   SpecHourly the reduction of hourly data to three series               *)
(*              (coordinator.py)                                           *)
(*   SpecEntry  the config entry's tokens through setup, refresh and       *)
(*              reload (__init__.py, api.py)                               *)
(*   SpecAccount the choice of the primary account (api.py)                *)
(*   SpecStamp  the timestamps of the imported statistics (sensor.py)      *)
(*   SpecRefresh  the token refreshes of the callers of one client, with   *)
(*              a token endpoint that rotates refresh tokens (api.py)       *)
(*   SpecSetup  setup, unload and reload of the config entry and the       *)
(*              timers of its coordinators (__init__.py, coordinator.py)   *)
(*                                                                         *)
(* Python's None and an absent dict key are the empty set, a present       *)
(* value x is {x}.  Time is counted in minutes in the token part and in    *)
(* hours in the statistics part.                                           *)
(***************************************************************************)
EXTENDS Integers, Sequences, FiniteSets, TLC

VARIABLES
    \* ---- api.py: OVOEnergyAUApiClient ----
    clock,              \* datetime.now(), in minutes
    access_token,       \* self._access_token
    id_token,           \* self._id_token
    refresh_token,      \* self._refresh_token
    token_expires_at,   \* self._token_expires_at
    token_data,         \* the token response body / persisted blob last handed to the client
    result,             \* the last client call: which, how it ended, when, the status answered
    expires_origin,     \* history: the token number whose data computed token_expires_at
    \* ---- sensor.py: the statistics of one hourly sensor ----
    upstream,           \* the hourly entries the data API holds, by hour
    window,             \* the date window of the last poll: <<first hour, last hour>>
    hourly,             \* coordinator.data["hourly"][data_key]: the entries of the last poll
    import_tasks,       \* the _async_import_statistics tasks created and not yet run
    store,              \* the recorder's statistics of statistic_id, by start hour
    last_sum,           \* last_sum of the last import that emitted statistics
    statistics,         \* the list that import handed to async_import_statistics
    \* ---- coordinator.py, __init__.py: refresh requests and the poll ----
    polls,              \* per caller, where its run of _async_update_data stands
    lock_owner,         \* the caller holding the request debouncer's execute lock
    cooldown_timer,     \* the request debouncer's cooldown timer is running
    execute_at_end,     \* the debouncer runs one more refresh when the cooldown ends
    armed,              \* the number of live 02:00 timers
    unsub_refresh,      \* self._unsub_refresh: "none", a "live" timer's handle, a "fired" one's
    next_update,        \* next_update of the 02:00 timer last armed, in hours
    armed_at,           \* history: dt_util.now() when that timer was armed
    local_now,          \* dt_util.now(), in hours since a local midnight
    since_fire,         \* history: "none" until the timer fires, then the last request: "fire", "manual"
    last_update_success,\* coordinator.last_update_success
    data,               \* coordinator.data: what the last successful poll published
    processed_data,     \* per caller, the snapshots its run of _async_update_data computed
    update_tasks,       \* the import tasks _handle_coordinator_update created, not yet run
    imported,           \* history: the hourly series whose statistics were last imported
    ep_requests,        \* history: refresh requests since the running poll began
    ep_interval,        \* history: interval fetches sent since then
    ep_hourly,          \* history: hourly fetches sent since then
    \* ---- api.py: authenticated data calls and the password login ----
    call,               \* the data call running or last run: operation, position, outcome
    http_log,           \* history: the HTTP requests that call has sent, in order
    login,              \* authenticate_with_password: position, outcome, the step that failed
    \* ---- coordinator.py: _process_data ----
    interval_data,      \* the GetIntervalData result handed to _process_data
    processed,          \* what _process_data returned or raised, once it has run
    \* ---- coordinator.py: _process_hourly_data ----
    hourly_data,        \* the GetHourlyData result handed to _process_hourly_data
    hourly_processed,   \* what _process_hourly_data returned or raised, once it has run
    \* ---- __init__.py: the config entry and the setup of the client ----
    config_entry,       \* entry.data: whether it has a "token" key, and the persisted token blob
    setup,              \* where async_setup_entry stands: "unloaded", "loaded", "ready", "failed"
    last_refresh,       \* history: the last refresh of this client: "none", "setup", "inline", "inline failed"
    \* ---- api.py: get_account_ids, get_account_id ----
    contact_info,       \* the GetContactInfo result that get_contact_info returned
    account_id,         \* what get_account_id returned or raised, once it has run
    \* ---- sensor.py: the timestamps of the statistics ----
    period_froms,       \* the "period_from" values of the entries of one import, sorted
    default_time_zone,  \* dt_util.get_default_time_zone(): its UTC offset in hours
    stamped,            \* the timestamps that import computed, once it has run
    \* ---- __init__.py: setup, unload and reload of the config entry ----
    setup_pc,           \* where the entry stands: "not loaded", a step of async_setup_entry, "loaded", "failed"
    coordinators,       \* the number of coordinators created so far
    coordinator,        \* the coordinator of the running or last setup, 0 before it is created
    timers,             \* per coordinator, its 02:00 timer and self._unsub_refresh
    scheduled_poll,     \* per coordinator, whether the poll of _async_scheduled_refresh is in flight
    first_refresh_ok,   \* history: per coordinator, whether its first refresh succeeded
    unloaded,           \* history: per coordinator, whether its entry was unloaded
    hass_data,          \* hass.data[DOMAIN][entry.entry_id]: the coordinator stored, 0 for none
    services,           \* the coordinator that the registered refresh_data handler refreshes, 0 for none
    \* ---- api.py: token refreshes of concurrent callers of one client ----
    call_pc,            \* per caller, where its poll stands: "idle", "ensure", "refreshing", "calling"
    call_stage,         \* per caller, the data call its poll is at: "interval" or "hourly"
    execute_lock,       \* the caller whose poll holds the execute lock of the request debouncer, or "none"
    held_refresh_token, \* self._refresh_token of the client, as the number of the rotation that issued it
    access_stale,       \* self.token_expired of the client
    sent_refresh_token, \* per caller, the refresh token in its request in flight
    server_refresh_token,\* the refresh token that the token endpoint accepts
    refresh_rejected,   \* history: the token endpoint has turned down a refresh token
    requests_dropped,   \* history: a request arrived while another caller was refreshing
    last_refresher      \* history: the caller whose refresh was answered last, or "none"

tokenVars == <<clock, access_token, id_token, refresh_token, token_expires_at,
               token_data, result, expires_origin>>

statsVars == <<upstream, window, hourly, import_tasks, store, last_sum, statistics>>

pollVars == <<polls, lock_owner, cooldown_timer, execute_at_end, armed, unsub_refresh,
              next_update, armed_at, local_now, since_fire,
              last_update_success, data, processed_data, update_tasks, imported,
              ep_requests, ep_interval, ep_hourly>>

clientVars == <<call, http_log, login>>

reduceVars == <<interval_data, processed>>

hourlyVars == <<hourly_data, hourly_processed>>

entryVars == <<config_entry, setup, last_refresh>>

accountVars == <<contact_info, account_id>>

stampVars == <<period_froms, default_time_zone, stamped>>

setupVars == <<setup_pc, coordinators, coordinator, timers, scheduled_poll, first_refresh_ok, unloaded, hass_data, services>>

refreshVars == <<call_pc, call_stage, execute_lock, held_refresh_token, access_stale, sent_refresh_token, server_refresh_token, refresh_rejected, requests_dropped, last_refresher>>

vars == <<tokenVars, statsVars, pollVars, clientVars, reduceVars, hourlyVars, entryVars, accountVars, stampVars, setupVars, refreshVars>>

\* What the actions of each part leave alone.
tokenFrame == <<statsVars, pollVars, clientVars, reduceVars, hourlyVars, entryVars, accountVars, stampVars, setupVars, refreshVars>>

statsFrame == <<tokenVars, pollVars, clientVars, reduceVars, hourlyVars, entryVars, accountVars, stampVars, setupVars, refreshVars>>

pollFrame == <<tokenVars, statsVars, clientVars, reduceVars, hourlyVars, entryVars, accountVars, stampVars, setupVars, refreshVars>>

clientFrame == <<statsVars, pollVars, reduceVars, hourlyVars, entryVars, accountVars, stampVars, setupVars, refreshVars>>

reduceFrame == <<tokenVars, statsVars, pollVars, clientVars, hourlyVars, entryVars, accountVars, stampVars, setupVars, refreshVars>>

hourlyFrame == <<tokenVars, statsVars, pollVars, clientVars, reduceVars, entryVars, accountVars, stampVars, setupVars, refreshVars>>

entryFrame == <<statsVars, pollVars, clientVars, reduceVars, hourlyVars, accountVars, stampVars, setupVars, refreshVars>>

accountFrame == <<tokenVars, statsVars, pollVars, clientVars, reduceVars, hourlyVars, entryVars, stampVars, setupVars, refreshVars>>

stampFrame == <<tokenVars, statsVars, pollVars, clientVars, reduceVars, hourlyVars, entryVars, accountVars, setupVars, refreshVars>>

setupFrame == <<tokenVars, statsVars, pollVars, clientVars, reduceVars, hourlyVars, entryVars, accountVars, stampVars, refreshVars>>

refreshFrame == <<tokenVars, statsVars, pollVars, clientVars, reduceVars, hourlyVars, entryVars, accountVars, stampVars, setupVars>>

-----------------------------------------------------------------------------
(* Option values *)

None == {}

Some(x) == {x}

Val(o) == CHOOSE x \in o : TRUE

\* Python truthiness of an optional integer: None and 0 are falsy.
Truthy(o) == o # None /\ Val(o) # 0

-----------------------------------------------------------------------------
(* Bounds and program constants of the token part *)

\* Tokens are numbered 1..NumTok; token n is issued together with id token n.
NumTok == 3

\* The clock runs 0..MaxClock.
MaxClock == 2

\* datetime.max in model minutes: datetime.now() + timedelta(...) beyond it
\* raises OverflowError.
DatetimeMax == 100

\* An expires_in so large (or of a non-numeric type) that the timedelta
\* arithmetic of set_tokens raises.
HugeExpiresIn == 200

\* timedelta(minutes=5), in minutes
EXPIRY_BUFFER == 5

\* timedelta(hours=1), in minutes
DEFAULT_EXPIRY == 60

\* The expires_in values a token response or a persisted blob carries.
ExpiresInValues == {0, EXPIRY_BUFFER, EXPIRY_BUFFER + 2, HugeExpiresIn}

\* jwt.decode(access_token, verify_signature False): whether token n decodes.
IsJwt(n) == n # 1

\* decoded.get("exp") of access token n: token 2 carries no exp claim,
\* the others an instant.
JwtExp(n) == IF n = 2 THEN None ELSE Some(n + 3)

\* A token response body (token_data) or persisted blob.
NoData == [n |-> 0, has_access |-> FALSE, has_id |-> FALSE,
           refresh |-> None, expires_in |-> None]

\* Response n carries access token n, id token n and, if any, refresh token n.
BodiesOf(n) ==
    { [n |-> n, has_access |-> TRUE, has_id |-> TRUE, refresh |-> r, expires_in |-> e] :
        r \in {None, Some(n)},
        e \in {None} \cup { Some(x) : x \in ExpiresInValues } }

WellFormedBodies == UNION { BodiesOf(n) : n \in 1..NumTok }

\* The persisted credential blobs: every blob was written from a credential
\* set that went through set_tokens without raising.
PersistedBlobs == { b \in WellFormedBodies : b.expires_in # Some(HugeExpiresIn) }

MalformedBodies ==
    { [n |-> 1, has_access |-> a, has_id |-> i, refresh |-> None, expires_in |-> None] :
        a \in BOOLEAN, i \in BOOLEAN } \ WellFormedBodies

\* What the token endpoint answers: status 0 stands for a transport error
\* (aiohttp.ClientError that is no ClientResponseError).  A status below 400
\* comes with a JSON body: 200, or a 3xx answer that the session does not
\* follow (304).
TokenResponses ==
    { [status |-> s, body |-> NoData] : s \in {0, 403, 500} }
    \cup { [status |-> 200, body |-> b] : b \in WellFormedBodies \cup MalformedBodies }
    \cup { [status |-> 304, body |-> b] :
              b \in { w \in BodiesOf(1) : w.expires_in = None } \cup MalformedBodies }

-----------------------------------------------------------------------------
(* api.py: the token store *)

token_expired_strict ==
    IF token_expires_at = None THEN TRUE
    ELSE clock > Val(token_expires_at) - EXPIRY_BUFFER

\* OVOEnergyAUApiClient.token_expired
token_expired ==
    IF token_expires_at = None THEN TRUE
    ELSE clock >= Val(token_expires_at) - EXPIRY_BUFFER

is_authenticated_ignoring_expiry == access_token # None

\* OVOEnergyAUApiClient.is_authenticated
is_authenticated == access_token # None /\ ~token_expired

\* The client's four fields as one value.
Fields == [access_token |-> access_token, id_token |-> id_token,
           refresh_token |-> refresh_token, token_expires_at |-> token_expires_at,
           expires_origin |-> expires_origin]

\* The expiry branch of set_tokens: None when the datetime arithmetic raises.
compute_expiry(now, access, expires_in) ==
    IF Truthy(expires_in)
    THEN IF now + Val(expires_in) > DatetimeMax
         THEN None
         ELSE Some(now + Val(expires_in))
    ELSE IF IsJwt(access) /\ Truthy(JwtExp(access))
         THEN JwtExp(access)
         ELSE Some(now + DEFAULT_EXPIRY)

\* OVOEnergyAUApiClient.set_tokens: the three token fields are assigned
\* first, then the expiry; an exception of the expiry arithmetic leaves
\* the expiry as it was.
set_tokens(now, access, id, refresh, expires_in) ==
    LET exp == compute_expiry(now, access, expires_in)
    IN  [access_token     |-> Some(access),
         id_token         |-> Some(id),
         refresh_token    |-> refresh,
         token_expires_at |-> IF exp = None THEN token_expires_at ELSE exp,
         expires_origin   |-> IF exp = None THEN expires_origin ELSE access,
         raised           |-> exp = None]

\* The outcome of a call that went through set_tokens.
AfterSet(s, onRaise) ==
    [fields  |-> [access_token |-> s.access_token, id_token |-> s.id_token,
                  refresh_token |-> s.refresh_token,
                  token_expires_at |-> s.token_expires_at,
                  expires_origin |-> s.expires_origin],
     outcome |-> IF s.raised THEN onRaise ELSE "ok"]

\* response.raise_for_status(): raises ClientResponseError for a status of
\* 400 or above.
raise_for_status(status) == status >= 400

\* OVOEnergyAUApiClient.exchange_code_for_tokens, given the endpoint's answer.
exchange_code_for_tokens(resp) ==
    IF resp.status = 0 THEN [fields |-> Fields, outcome |-> "CommunicationError"]
    ELSE IF raise_for_status(resp.status)
         THEN [fields |-> Fields, outcome |-> "CommunicationError"]
    ELSE IF ~resp.body.has_access \/ ~resp.body.has_id
         THEN [fields |-> Fields, outcome |-> "AuthenticationError"]
    ELSE AfterSet(set_tokens(clock, resp.body.n, resp.body.n, resp.body.refresh,
                             resp.body.expires_in),
                  "AuthenticationError")

refresh_arg_dropping(body) == body.refresh

\* token_data.get("refresh_token", self._refresh_token)
refresh_arg(body) == IF body.refresh = None THEN refresh_token ELSE body.refresh

\* OVOEnergyAUApiClient.refresh_tokens, given the endpoint's answer
\* (the caller has checked that a refresh token is stored).
refresh_tokens(resp) ==
    IF resp.status = 0 THEN [fields |-> Fields, outcome |-> "CommunicationError"]
    ELSE IF raise_for_status(resp.status)
         THEN [fields |-> Fields,
               outcome |-> IF resp.status = 403 THEN "AuthenticationError"
                           ELSE "CommunicationError"]
    ELSE IF ~resp.body.has_access \/ ~resp.body.has_id
         THEN [fields |-> Fields, outcome |-> "AuthenticationError"]
    ELSE AfterSet(set_tokens(clock, resp.body.n, resp.body.n, refresh_arg(resp.body),
                             resp.body.expires_in),
                  "AuthenticationError")

\* Assign the client's fields from the outcome of a call.
Store(f) ==
    /\ access_token' = f.access_token
    /\ id_token' = f.id_token
    /\ refresh_token' = f.refresh_token
    /\ token_expires_at' = f.token_expires_at
    /\ expires_origin' = f.expires_origin

\* Time passes.
Tick ==
    /\ clock < MaxClock
    /\ clock' = clock + 1
    /\ UNCHANGED <<access_token, id_token, refresh_token, token_expires_at,
                   token_data, result, expires_origin>>
    /\ UNCHANGED tokenFrame

\* async_setup_entry / async_oauth_create_entry: set_tokens from the
\* persisted blob (the OAuth2 blob carries expires_in, the flat one does not).
SetTokens(blob) ==
    LET r == AfterSet(set_tokens(clock, blob.n, blob.n, blob.refresh, blob.expires_in),
                      "OverflowError")
    IN  /\ Store(r.fields)
        /\ token_data' = blob
        /\ result' = [op |-> "set_tokens", outcome |-> r.outcome, at |-> clock, status |-> 0]
        /\ UNCHANGED clock
        /\ UNCHANGED tokenFrame

\* One call of exchange_code_for_tokens.
ExchangeCode(resp) ==
    LET r == exchange_code_for_tokens(resp)
    IN  /\ Store(r.fields)
        /\ token_data' = resp.body
        /\ result' = [op |-> "exchange", outcome |-> r.outcome, at |-> clock,
                       status |-> resp.status]
        /\ UNCHANGED clock
        /\ UNCHANGED tokenFrame

\* One call of refresh_tokens with a stored refresh token.
RefreshTokens(resp) ==
    /\ refresh_token # None
    /\ LET r == refresh_tokens(resp)
       IN  /\ Store(r.fields)
           /\ token_data' = resp.body
           /\ result' = [op |-> "refresh", outcome |-> r.outcome, at |-> clock,
                          status |-> resp.status]
    /\ UNCHANGED clock
    /\ UNCHANGED tokenFrame

\* refresh_tokens without a stored refresh token: no request is sent.
RefreshWithoutToken ==
    /\ refresh_token = None
    /\ result' = [op |-> "refresh", outcome |-> "AuthenticationError", at |-> clock,
                  status |-> 0]
    /\ token_data' = NoData
    /\ UNCHANGED <<clock, access_token, id_token, refresh_token, token_expires_at,
                   expires_origin>>
    /\ UNCHANGED tokenFrame

TokenNext ==
    \/ Tick
    \/ \E blob \in PersistedBlobs : SetTokens(blob)
    \/ \E resp \in TokenResponses : ExchangeCode(resp)
    \/ \E resp \in TokenResponses : RefreshTokens(resp)
    \/ RefreshWithoutToken

-----------------------------------------------------------------------------
(* sensor.py: the statistics merger of one hourly sensor *)

\* timedelta(hours=24), in hours
LOOKBACK_HOURS == 24

\* An entry's consumption is 0..MaxCons, or null.
MaxCons == 2

\* At most this many import tasks wait to run.
MaxImportTasks == 1

\* The hours that may carry an entry: two adjacent hours, and two more than
\* a day later, so that both a lookback that finds a statistic and one that
\* finds none occur.
Hours == {0, 1, LOOKBACK_HOURS + 1, LOOKBACK_HOURS + 2}

\* entry.get("consumption", 0): a number, or None for a JSON null.
Consumptions == {None} \cup { Some(c) : c \in 0..MaxCons }

\* The upstream series: for each hour no entry (None) or an entry's consumption.
UpstreamSeries == [Hours -> {None} \cup { Some(c) : c \in Consumptions }]

RECURSIVE SortedHours(_)
\* The hours of S in ascending order.
SortedHours(S) ==
    IF S = {} THEN <<>>
    ELSE LET m == CHOOSE x \in S : \A y \in S : x <= y
         IN  <<m>> \o SortedHours(S \ {m})

Reverse(s) == [i \in 1..Len(s) |-> s[Len(s) + 1 - i]]

\* _process_hourly_data on the answer of get_hourly_data for the window
\* lo..hi: one entry per upstream entry, in the order the API sent them.
process_hourly_data(lo, hi, descending) ==
    LET hs  == SortedHours({ h \in Hours : upstream[h] # None /\ lo <= h /\ h <= hi })
        asc == [i \in 1..Len(hs) |->
                    [period_from |-> hs[i], consumption |-> Val(upstream[hs[i]])]]
    IN  IF descending THEN Reverse(asc) ELSE asc

RECURSIVE InsertEntry(_, _)
InsertEntry(e, s) ==
    IF s = <<>> THEN <<e>>
    ELSE IF e.period_from < Head(s).period_from
         THEN <<e>> \o s
         ELSE <<Head(s)>> \o InsertEntry(e, Tail(s))

RECURSIVE sort_entries(_)
\* entries.sort(key=lambda x: x["period_from"])
sort_entries(entries) ==
    IF entries = <<>> THEN <<>>
    ELSE InsertEntry(entries[Len(entries)], sort_entries(SubSeq(entries, 1, Len(entries) - 1)))

\* statistics_during_period(hass, start, end, [statistic_id], "hour", None, {"sum"}):
\* the stored statistics with start <= hour < end, in time order.
statistics_during_period(start, end) ==
    LET hs == SortedHours({ h \in Hours : store[h] # None /\ start <= h /\ h < end })
    IN  [i \in 1..Len(hs) |-> [start |-> hs[i], sum |-> Val(store[hs[i]]).sum]]

\* A seed taken from the latest statistic stored, wherever it lies.
last_known_sum_latest(first_entry_time) ==
    LET history_list == statistics_during_period(0, LOOKBACK_HOURS + LOOKBACK_HOURS)
    IN  IF history_list = <<>> THEN 0 ELSE history_list[Len(history_list)].sum

\* The seed of the running total: the sum of the last statistic in the 24
\* hours before the first entry, or 0.
last_known_sum(first_entry_time) ==
    LET history_list == statistics_during_period(first_entry_time - LOOKBACK_HOURS,
                                                 first_entry_time)
    IN  IF history_list = <<>> THEN 0 ELSE history_list[Len(history_list)].sum

RECURSIVE build_statistics(_, _)
\* The loop over the entries: an entry whose consumption float() rejects
\* (None) is skipped, every other entry adds to current_sum and emits a row.
build_statistics(entries, current_sum) ==
    IF entries = <<>> THEN <<>>
    ELSE LET entry == Head(entries)
         IN  IF entry.consumption = None
             THEN build_statistics(Tail(entries), current_sum)
             ELSE LET consumption == Val(entry.consumption)
                  IN  <<[start |-> entry.period_from,
                         state |-> consumption,
                         sum   |-> current_sum + consumption]>>
                      \o build_statistics(Tail(entries), current_sum + consumption)

\* async_import_statistics: each row replaces the statistic of its start hour.
async_import_statistics(rows) ==
    [h \in Hours |->
        IF \E i \in 1..Len(rows) : rows[i].start = h
        THEN LET i == CHOOSE j \in 1..Len(rows) : rows[j].start = h
             IN  Some([state |-> rows[i].state, sum |-> rows[i].sum])
        ELSE store[h]]

\* A successful poll publishes the hourly entries of its date window; the
\* window never moves back.  _handle_coordinator_update then creates one
\* import task for the sensor.
PollPublish(lo, hi, descending) ==
    /\ import_tasks < MaxImportTasks
    /\ lo <= hi
    /\ window[1] <= lo
    /\ window[2] <= hi
    /\ window' = <<lo, hi>>
    /\ hourly' = process_hourly_data(lo, hi, descending)
    /\ import_tasks' = import_tasks + 1
    /\ UNCHANGED <<upstream, store, last_sum, statistics>>
    /\ UNCHANGED statsFrame

\* _async_import_statistics with no entries: returns at once.
ImportNothing ==
    /\ import_tasks > 0
    /\ hourly = <<>>
    /\ import_tasks' = import_tasks - 1
    /\ UNCHANGED <<upstream, window, hourly, store, last_sum, statistics>>
    /\ UNCHANGED statsFrame

\* _async_import_statistics with entries.
ImportStatistics ==
    /\ import_tasks > 0
    /\ hourly # <<>>
    /\ LET entries == sort_entries(hourly)
           seed    == last_known_sum(entries[1].period_from)
           rows    == build_statistics(entries, seed)
       IN  /\ hourly' = entries
           /\ IF rows # <<>>
              THEN /\ store' = async_import_statistics(rows)
                   /\ last_sum' = seed
                   /\ statistics' = rows
              ELSE UNCHANGED <<store, last_sum, statistics>>
    /\ import_tasks' = import_tasks - 1
    /\ UNCHANGED <<upstream, window>>
    /\ UNCHANGED statsFrame

StatsNext ==
    \/ \E lo \in Hours, hi \in Hours, descending \in BOOLEAN : PollPublish(lo, hi, descending)
    \/ ImportNothing
    \/ ImportStatistics

-----------------------------------------------------------------------------
(* coordinator.py, __init__.py: refresh requests and the poll.             *)
(*                                                                         *)
(* OVOEnergyAUDataUpdateCoordinator inherits async_request_refresh and     *)
(* async_refresh from Home Assistant's DataUpdateCoordinator.  A request   *)
(* goes through the coordinator's request debouncer (immediate, with a     *)
(* cooldown): a request during the cooldown asks for one run at its end,   *)
(* a request while the execute lock is held returns at once, any other     *)
(* request takes the lock and runs async_refresh.  async_refresh first     *)
(* calls and clears self._unsub_refresh and cancels the debouncer's        *)
(* cooldown, then awaits _async_update_data.  Code between two awaits      *)
(* runs as one step of the event loop.                                     *)
(***************************************************************************)

\* At most this many requests are counted against one running poll.
MaxRequests == 3

\* The clock of the poll part stops at this hour.
MaxNow == 27

\* const.py: UPDATE_HOUR
UPDATE_HOUR == 2

\* timedelta(days=1), in hours
HoursPerDay == 24

\* The hours at which async_start_scheduled_updates may run: before, at and
\* after 02:00.
StartHours == {UPDATE_HOUR - 1, UPDATE_HOUR, UPDATE_HOUR + 1}

\* Who may run a refresh: the 02:00 handler, the refresh_data service, the
\* debouncer's cooldown timer.
Runners == {"scheduled", "manual", "cooldown"}

InFlight == { r \in Runners : polls[r] # "idle" }

\* What get_interval_data and _process_data end in: a result, one of the
\* client's errors, any other exception.
IntervalResults == {"ok", "AuthenticationError", "CommunicationError", "ApiError",
                    "Exception"}

\* The interval snapshots a poll may compute and the hourly series it may
\* reduce; "partial" stands for what an hourly step that failed had got.
Snapshots == {"i1", "i2"}

Series == {"h1", "h2"}

\* The values of coordinator.data.
Published == [interval : Snapshots, hourly : Series \cup {"empty"}]

\* A variant of the hourly step that keeps what it had when it failed.
published_partial(snapshot, res, series) ==
    [interval |-> snapshot, hourly |-> IF res = "ok" THEN series ELSE "partial"]

\* processed_data as _async_update_data returns it: the snapshots of this
\* poll and the hourly series, or {} for the series when the hourly step
\* raised.
published(snapshot, res, series) ==
    [interval |-> snapshot, hourly |-> IF res = "ok" THEN series ELSE "empty"]

\* A variant of a failed refresh that clears the hourly part of the data.
failed_data_cleared(d) == [d EXCEPT !.hourly = "empty"]

\* A refresh that ends in an error does not assign coordinator.data.
failed_data(d) == d

\* A variant of the import that does not return early without hourly data.
import_series_unguarded(d, last) == IF d.hourly = "empty" THEN "partial" ELSE d.hourly

\* _async_import_statistics: returns at once when coordinator.data has no
\* hourly part, else imports the statistics of the published series.
import_series(d, last) == IF d.hourly = "empty" THEN last ELSE d.hourly

\* The end of async_refresh: the listeners are called unless this refresh
\* and the one before both failed, and the hourly sensor's
\* _handle_coordinator_update creates one import task.
listeners_called(success) == success \/ last_update_success

UpdateListeners(success) ==
    IF listeners_called(success)
    THEN /\ update_tasks < MaxImportTasks
         /\ update_tasks' = update_tasks + 1
    ELSE UNCHANGED update_tasks

\* A variant in which the poll imports the statistics itself, before it
\* hands its data to the listeners.
imported_on_publish_merged(d, last) == import_series(d, last)

\* The statistics after the poll has published data d: the listeners only
\* create the import task, which runs later.
imported_on_publish(d, last) == last

\* What get_hourly_data and _process_hourly_data end in.
HourlyResults == {"ok", "error"}

\* The state of the 02:00 timer and its handle.
Timer == [armed |-> armed, unsub |-> unsub_refresh,
          next_update |-> next_update, armed_at |-> armed_at]

\* The one-shot timer fires: its handle stays in self._unsub_refresh.
fired(t) == [t EXCEPT !.armed = @ - 1,
                      !.unsub = IF @ = "live" THEN "fired" ELSE @]

\* Calling a handle cancels its timer if that is still live.
cancelled(t) == [t EXCEPT !.armed = IF t.unsub = "live" THEN @ - 1 ELSE @,
                          !.unsub = "none"]

\* A variant that keeps today's 02:00 also when it has passed.
next_update_today(n) == (n \div HoursPerDay) * HoursPerDay + UPDATE_HOUR

\* now.replace(hour=UPDATE_HOUR, minute=0, ...), a day later if that is not
\* after now.
next_update_at(n) ==
    LET today == (n \div HoursPerDay) * HoursPerDay + UPDATE_HOUR
    IN  IF today <= n THEN today + HoursPerDay ELSE today

\* _schedule_next_refresh: cancel the existing schedule if any, then arm
\* the timer for the next 02:00.
schedule_next_refresh(t) ==
    LET c == IF t.unsub # "none" THEN cancelled(t) ELSE t
    IN  [armed |-> c.armed + 1, unsub |-> "live",
         next_update |-> Some(next_update_at(local_now)), armed_at |-> local_now]

SetTimer(t) ==
    /\ armed' = t.armed
    /\ unsub_refresh' = t.unsub
    /\ next_update' = t.next_update
    /\ armed_at' = t.armed_at

\* The history counters when a poll begins or a request meets a running one.
CountRequest(starts) ==
    IF InFlight = {}
    THEN /\ ep_requests' = IF starts THEN 1 ELSE ep_requests
         /\ ep_interval' = IF starts THEN 1 ELSE ep_interval
         /\ ep_hourly' = IF starts THEN 0 ELSE ep_hourly
    ELSE /\ ep_requests' = ep_requests + 1
         /\ ep_interval' = IF starts THEN ep_interval + 1 ELSE ep_interval
         /\ ep_hourly' = ep_hourly

\* async_refresh up to its first await: the stored handle is called and
\* cleared, the debouncer's cooldown is cancelled, and _async_update_data
\* sends the interval request.  rearm: the caller is the 02:00 handler.
BeginRefresh(r, t, locked) ==
    /\ polls' = [polls EXCEPT ![r] = "interval"]
    /\ lock_owner' = IF locked THEN r ELSE lock_owner
    /\ cooldown_timer' = FALSE
    /\ execute_at_end' = FALSE
    /\ SetTimer(cancelled(t))
    /\ CountRequest(TRUE)
    /\ UNCHANGED <<last_update_success, data>>

\* A caller that awaited self.async_refresh() instead: the refresh runs
\* whatever the debouncer's state.
async_request_refresh_unlocked(r, t, after) == BeginRefresh(r, t, FALSE)

\* self.async_request_refresh(): the debouncer's async_call.  after: the
\* timer state the caller leaves when the call returns without a refresh.
async_request_refresh(r, t, after) ==
    IF cooldown_timer
    THEN /\ execute_at_end' = TRUE
         /\ SetTimer(after)
         /\ CountRequest(FALSE)
         /\ UNCHANGED <<polls, lock_owner, cooldown_timer, last_update_success, data>>
    ELSE IF lock_owner # "none"
    THEN /\ SetTimer(after)
         /\ CountRequest(FALSE)
         /\ UNCHANGED <<polls, lock_owner, cooldown_timer, execute_at_end,
                        last_update_success, data>>
    ELSE BeginRefresh(r, t, TRUE)

\* A service handler that awaited coordinator.async_refresh() instead: the
\* refresh runs whatever the debouncer's state.
manual_refresh_direct(t) == BeginRefresh("manual", t, FALSE)

\* handle_refresh_data: await coordinator.async_request_refresh()
manual_refresh(t) == async_request_refresh("manual", t, t)

\* The refresh_data service is called.
handle_refresh_data ==
    /\ polls["manual"] = "idle"
    /\ ep_requests < MaxRequests
    /\ manual_refresh(Timer)
    /\ since_fire' = IF since_fire = "none" THEN "none" ELSE "manual"
    /\ UNCHANGED <<local_now, processed_data, update_tasks, imported>>
    /\ UNCHANGED pollFrame

\* The 02:00 timer fires: _async_scheduled_refresh requests a refresh and,
\* when the request returns without running one, re-arms at once.
ScheduledFire ==
    /\ armed > 0
    /\ local_now >= Val(next_update)
    /\ polls["scheduled"] = "idle"
    /\ ep_requests < MaxRequests
    /\ async_request_refresh("scheduled", fired(Timer), schedule_next_refresh(fired(Timer)))
    /\ since_fire' = "fire"
    /\ UNCHANGED <<local_now, processed_data, update_tasks, imported>>
    /\ UNCHANGED pollFrame

\* The debouncer's cooldown ends: the timer is cleared and, if a request
\* came during the cooldown, one refresh runs.
CooldownEnds ==
    /\ cooldown_timer
    /\ IF execute_at_end /\ lock_owner = "none"
       THEN BeginRefresh("cooldown", Timer, TRUE)
       ELSE /\ cooldown_timer' = FALSE
            /\ execute_at_end' = FALSE
            /\ UNCHANGED <<polls, lock_owner, armed, unsub_refresh, next_update, armed_at,
                           last_update_success,
                           data, ep_requests, ep_interval, ep_hourly>>
    /\ UNCHANGED <<local_now, since_fire, processed_data, update_tasks, imported>>
    /\ UNCHANGED pollFrame

\* The refresh of caller r ends: the debouncer releases the lock and starts
\* its cooldown, and the 02:00 handler re-arms the timer.
EndRefresh(r) ==
    /\ polls' = [polls EXCEPT ![r] = "idle"]
    /\ IF lock_owner = r
       THEN /\ lock_owner' = "none"
            /\ cooldown_timer' = TRUE
       ELSE UNCHANGED <<lock_owner, cooldown_timer>>
    /\ SetTimer(IF r = "scheduled" THEN schedule_next_refresh(Timer) ELSE Timer)
    /\ UNCHANGED <<execute_at_end, ep_requests, ep_interval>>

\* _async_update_data: get_interval_data and _process_data return or
\* raise.  An error ends the poll and leaves coordinator.data alone;
\* otherwise the hourly request is sent.
IntervalFetched(r, res, snapshot) ==
    /\ polls[r] = "interval"
    /\ IF res = "ok"
       THEN /\ polls' = [polls EXCEPT ![r] = "hourly"]
            /\ processed_data' = [processed_data EXCEPT ![r] = snapshot]
            /\ ep_hourly' = ep_hourly + 1
            /\ UNCHANGED <<lock_owner, cooldown_timer, execute_at_end, armed, unsub_refresh,
                           next_update, armed_at,
                           last_update_success, data, update_tasks, ep_requests,
                           ep_interval>>
       ELSE /\ EndRefresh(r)
            /\ last_update_success' = FALSE
            /\ UpdateListeners(FALSE)
            /\ data' = failed_data(data)
            /\ UNCHANGED <<processed_data, ep_hourly>>
    /\ UNCHANGED <<local_now, since_fire, imported>>
    /\ UNCHANGED pollFrame

\* _async_update_data: get_hourly_data and _process_hourly_data return or
\* raise; either way the poll succeeds and publishes its data, with or
\* without hourly entries.
HourlyFetched(r, res, series) ==
    /\ polls[r] = "hourly"
    /\ EndRefresh(r)
    /\ last_update_success' = TRUE
    /\ data' = published(processed_data[r], res, series)
    /\ processed_data' = [processed_data EXCEPT ![r] = "none"]
    /\ UpdateListeners(TRUE)
    /\ imported' = imported_on_publish(published(processed_data[r], res, series), imported)
    /\ UNCHANGED ep_hourly
    /\ UNCHANGED <<local_now, since_fire>>
    /\ UNCHANGED pollFrame

\* _async_import_statistics runs: without hourly data it returns at once,
\* otherwise it imports the statistics of the published series.
RunImportTask ==
    /\ update_tasks > 0
    /\ update_tasks' = update_tasks - 1
    /\ imported' = import_series(data, imported)
    /\ UNCHANGED <<polls, lock_owner, cooldown_timer, execute_at_end, armed, unsub_refresh,
                   next_update, armed_at, local_now, since_fire, last_update_success, data,
                   processed_data, ep_requests, ep_interval, ep_hourly>>
    /\ UNCHANGED pollFrame

\* An hour passes.  A poll and the debouncer's cooldown take seconds and a
\* due timer fires at once, so none of them is pending when the hour ends.
PollTick ==
    /\ local_now < MaxNow
    /\ InFlight = {}
    /\ ~cooldown_timer
    /\ update_tasks = 0
    /\ ~(armed > 0 /\ local_now >= Val(next_update))
    /\ local_now' = local_now + 1
    /\ UNCHANGED <<polls, lock_owner, cooldown_timer, execute_at_end, armed, unsub_refresh,
                   next_update, armed_at, since_fire, last_update_success, data,
                   processed_data, update_tasks, imported,
                   ep_requests, ep_interval, ep_hourly>>
    /\ UNCHANGED pollFrame

PollNext ==
    \/ PollTick
    \/ handle_refresh_data
    \/ ScheduledFire
    \/ CooldownEnds
    \/ \E r \in Runners, res \in IntervalResults, snapshot \in Snapshots :
          IntervalFetched(r, res, snapshot)
    \/ \E r \in Runners, res \in HourlyResults, series \in Series :
          HourlyFetched(r, res, series)
    \/ RunImportTask

-----------------------------------------------------------------------------
(* api.py: authenticated data calls.                                       *)
(*                                                                         *)
(* A data call runs _ensure_authenticated, which may await one refresh,    *)
(* then builds its headers from the stored tokens and awaits the GraphQL   *)
(* request.  Code between two awaits runs as one step.                     *)

\* A "errors" array of a GraphQL answer holds at most this many entries.
MaxErrors == 2

Operations == {"get_contact_info", "get_interval_data", "get_hourly_data"}

\* decoded_id.get('email') of id token n: id token 1 does not decode (IsJwt),
\* id token 2 carries no email claim.
HasEmail(n) == n # 2

\* The Content-Type of an answer: "json" is application/json; "html" does
\* not contain 'application/json'; "mixed" contains it without being a JSON
\* type (such as text/html; alt=application/json), so that response.json()
\* raises ContentTypeError.
ContentTypes == {"json", "html", "mixed"}

\* error.get("message", "Unknown error") of one entry of "errors".
Messages == {"absent", "m1", "m2"}

ErrorLists == UNION { [1..k -> Messages] : k \in 0..MaxErrors }

\* The "data" envelope of a JSON answer: no such key, null, an object
\* lacking the operation's field, an object holding it.
Envelopes == {"absent", "null", "empty", "field"}

NoResp == [status |-> 0, ctype |-> "none", errors |-> None, data |-> "absent"]

\* What the data endpoint answers: status 0 stands for a transport error.
DataResponses ==
    { [status |-> st, ctype |-> "none", errors |-> None, data |-> "absent"] :
        st \in {0, 401, 500} }
    \cup { [status |-> 200, ctype |-> c, errors |-> None, data |-> "absent"] :
             c \in {"html", "mixed"} }
    \cup { [status |-> 200, ctype |-> "json", errors |-> None, data |-> d] :
             d \in Envelopes }
    \cup { [status |-> 200, ctype |-> "json", errors |-> Some(l), data |-> d] :
             l \in ErrorLists, d \in {"absent", "field"} }

\* stale: the call began with an expired access token and no refresh token.
NoCall == [op |-> "none", pc |-> "idle", outcome |-> "none", resp |-> NoResp,
           named |-> <<>>, stale |-> FALSE]

\* The blobs a client is set up from, and the answers to the refresh of a
\* data call: those without expires_in, with one above the buffer, or with
\* one the expiry arithmetic rejects.
ClientBlobs ==
    { b \in PersistedBlobs : b.expires_in \in {None, Some(EXPIRY_BUFFER + 2)} }

RefreshAnswers ==
    { r \in TokenResponses : r.body.expires_in \in {None, Some(HugeExpiresIn)} }

\* No login is running; steps are the HTTP requests a login has sent and
\* answers how they ended, in order.
NoLogin == [pc |-> "idle", outcome |-> "none", failed |-> "none",
            steps |-> <<>>, answers |-> <<>>]

ensure_authenticated_unchecked ==
    IF token_expired /\ refresh_token # None THEN "refresh" ELSE "proceed"

\* _ensure_authenticated up to its await: raise, refresh, or go on.
ensure_authenticated ==
    IF access_token = None THEN "raise"
    ELSE IF token_expired /\ refresh_token # None THEN "refresh"
    ELSE "proceed"

\* Headers built from the tokens stored when the step began.
headers_before(f) == [to |-> "data", access |-> access_token, id |-> id_token]

\* The authorization and myovo-id-token headers, built from the stored
\* tokens f after _ensure_authenticated has returned.
headers(f) == [to |-> "data", access |-> f.access_token, id |-> f.id_token]

error_messages_first(l) ==
    IF l = <<>> THEN <<>>
    ELSE <<IF l[1] = "absent" THEN "Unknown error" ELSE l[1]>>

\* [error.get("message", "Unknown error") for error in data["errors"]]
error_messages(l) ==
    [i \in 1..Len(l) |-> IF l[i] = "absent" THEN "Unknown error" ELSE l[i]]

\* How a data call ends, given the endpoint's answer.  ContentTypeError is a
\* ClientResponseError and is caught by that clause, which comes first.
data_outcome(op, resp) ==
    IF resp.status = 0 THEN "CommunicationError"
    ELSE IF raise_for_status(resp.status)
         THEN IF resp.status = 401 THEN "AuthenticationError" ELSE "CommunicationError"
    ELSE IF resp.ctype = "html" THEN "AuthenticationError"
    ELSE IF resp.ctype = "mixed" THEN "CommunicationError"
    ELSE IF resp.errors # None THEN "ApiError"
    ELSE IF resp.data = "absent" THEN "ApiError"
    ELSE IF resp.data = "null" THEN "TypeError"
    ELSE IF resp.data = "empty"
         THEN IF op = "get_contact_info" THEN "ApiError" ELSE "KeyError"
    ELSE "ok"

\* The call ends without a further request.
EndCall(op, outcome, resp) ==
    call' = [call EXCEPT !.op = op, !.pc = "idle", !.outcome = outcome, !.resp = resp,
                         !.named = IF outcome = "ApiError" /\ resp.errors # None
                                   THEN error_messages(Val(resp.errors)) ELSE <<>>]

\* A variant that sends the data request a second time.
SendDataAgain(op, f, log, stale) ==
    /\ call' = [op |-> op, pc |-> "fetching", outcome |-> "pending", resp |-> NoResp,
                named |-> <<>>, stale |-> stale]
    /\ http_log' = Append(Append(log, headers(f)), headers(f))

\* After _ensure_authenticated: get_contact_info decodes the id token, and
\* the operation's one POST is sent with the stored tokens f.
SendData(op, f, log, stale) ==
    IF op = "get_contact_info"
       /\ (f.id_token = None \/ ~IsJwt(Val(f.id_token)) \/ ~HasEmail(Val(f.id_token)))
    THEN /\ call' = [op |-> op, pc |-> "idle", outcome |-> "ApiError", resp |-> NoResp,
                     named |-> <<>>, stale |-> stale]
         /\ http_log' = log
    ELSE /\ call' = [op |-> op, pc |-> "fetching", outcome |-> "pending", resp |-> NoResp,
                     named |-> <<>>, stale |-> stale]
         /\ http_log' = Append(log, headers(f))

\* A data operation is called.
StartCall(op) ==
    /\ call.pc = "idle"
    /\ login.pc = "idle"
    /\ LET e == ensure_authenticated
       IN  CASE e = "raise" ->
                  /\ call' = [op |-> op, pc |-> "idle", outcome |-> "AuthenticationError",
                              resp |-> NoResp, named |-> <<>>, stale |-> FALSE]
                  /\ http_log' = <<>>
             [] e = "refresh" ->
                  /\ call' = [op |-> op, pc |-> "refreshing", outcome |-> "pending",
                              resp |-> NoResp, named |-> <<>>, stale |-> FALSE]
                  /\ http_log' = <<[to |-> "token", access |-> None, id |-> None]>>
             [] e = "proceed" -> SendData(op, Fields, <<>>, token_expired)
    /\ UNCHANGED <<tokenVars, login>>
    /\ UNCHANGED clientFrame

\* The token endpoint answers the refresh of a data call.
RefreshAnswered(resp) ==
    /\ call.pc = "refreshing"
    /\ LET r == refresh_tokens(resp)
       IN  /\ Store(r.fields)
           /\ token_data' = resp.body
           /\ result' = [op |-> "refresh", outcome |-> r.outcome, at |-> clock,
                         status |-> resp.status]
           /\ IF r.outcome = "ok"
              THEN SendData(call.op, r.fields, http_log, FALSE)
              ELSE /\ EndCall(call.op, r.outcome, NoResp)
                   /\ UNCHANGED http_log
    /\ UNCHANGED <<clock, login>>
    /\ UNCHANGED clientFrame

\* The data endpoint answers.
DataAnswered(resp) ==
    /\ call.pc = "fetching"
    /\ EndCall(call.op, data_outcome(call.op, resp), resp)
    /\ UNCHANGED <<tokenVars, http_log, login>>
    /\ UNCHANGED clientFrame

-----------------------------------------------------------------------------
(* api.py: authenticate_with_password, one step per HTTP request *)

\* How an HTTP step of the login can end: "transport" is an
\* aiohttp.ClientError raised by the request, the others are answers.
AuthorizeResults == {"answered", "transport"}

\* The login POST: status 200 with a page that has a form action and hidden
\* inputs, a status other than 200, a page without action="...", a page
\* with an action and no hidden input, or a transport error.
LoginResults == {"form", "not_200", "no_action", "no_hidden", "transport"}

CallbackResults == {"code", "no_code", "transport"}

\* The login's outer handler: an exception of the client's own classes is
\* re-raised, every other exception becomes AuthenticationError.
login_error(exception) ==
    IF exception \in {"AuthenticationError", "CommunicationError", "ApiError"}
    THEN exception
    ELSE "AuthenticationError"

\* The login ends, having got answer r to its last request.
EndLogin(outcome, failed, r) ==
    login' = [login EXCEPT !.pc = "idle", !.outcome = outcome, !.failed = failed,
                           !.answers = Append(@, r)]

\* The login sends its next request, having got answer r to the last one.
NextStep(step, r) ==
    login' = [login EXCEPT !.pc = step, !.steps = Append(@, step),
                           !.answers = Append(@, r)]

form_extracted_lenient(r) == r \in {"form", "no_hidden"}

\* response.status == 200, action_match and form_data all hold.
form_extracted(r) == r = "form"

\* query_params.get('code', [None])[0] is truthy.
code_extracted(r) == r = "code"

\* authenticate_with_password is called: the authorize GET is sent.  The
\* config flow calls it once, on a client it has just built.
LoginStart ==
    /\ login = NoLogin
    /\ call = NoCall
    /\ access_token = None
    /\ login' = [pc |-> "authorize", outcome |-> "pending", failed |-> "none",
                 steps |-> <<"authorize">>, answers |-> <<>>]
    /\ UNCHANGED <<tokenVars, call, http_log>>
    /\ UNCHANGED clientFrame

\* Step 1 ends; whatever the status, the login POST is sent next.
AuthorizeAnswered(r) ==
    /\ login.pc = "authorize"
    /\ IF r = "transport"
       THEN EndLogin(login_error("ClientError"), "authorize", r)
       ELSE NextStep("login", r)
    /\ UNCHANGED <<tokenVars, call, http_log>>
    /\ UNCHANGED clientFrame

\* Step 2 ends: a status other than 200, or a page without form action or
\* hidden fields, raises AuthenticationError; else the form is submitted.
LoginAnswered(r) ==
    /\ login.pc = "login"
    /\ IF r = "transport" THEN EndLogin(login_error("ClientError"), "login", r)
       ELSE IF form_extracted(r) THEN NextStep("callback", r)
       ELSE EndLogin(login_error("AuthenticationError"), "none", r)
    /\ UNCHANGED <<tokenVars, call, http_log>>
    /\ UNCHANGED clientFrame

\* Step 4 ends: without a code in the final URL AuthenticationError is
\* raised; else the code is exchanged.
CallbackAnswered(r) ==
    /\ login.pc = "callback"
    /\ IF r = "transport" THEN EndLogin(login_error("ClientError"), "callback", r)
       ELSE IF code_extracted(r) THEN NextStep("exchange", r)
       ELSE EndLogin(login_error("AuthenticationError"), "none", r)
    /\ UNCHANGED <<tokenVars, call, http_log>>
    /\ UNCHANGED clientFrame

\* Step 5 ends: exchange_code_for_tokens returns or raises.
ExchangeAnswered(resp) ==
    /\ login.pc = "exchange"
    /\ LET r == exchange_code_for_tokens(resp)
       IN  /\ Store(r.fields)
           /\ token_data' = resp.body
           /\ result' = [op |-> "exchange", outcome |-> r.outcome, at |-> clock,
                         status |-> resp.status]
           /\ EndLogin(IF r.outcome = "ok" THEN "ok" ELSE login_error(r.outcome),
                       IF resp.status = 0 THEN "exchange" ELSE "none", "answered")
    /\ UNCHANGED <<clock, call, http_log>>
    /\ UNCHANGED clientFrame

ClientNext ==
    \/ Tick
    \/ LoginStart
    \/ \E r \in AuthorizeResults : AuthorizeAnswered(r)
    \/ \E r \in LoginResults : LoginAnswered(r)
    \/ \E r \in CallbackResults : CallbackAnswered(r)
    \/ \E resp \in RefreshAnswers : ExchangeAnswered(resp)
    \/ \E op \in Operations : StartCall(op)
    \/ \E resp \in RefreshAnswers : RefreshAnswered(resp)
    \/ \E resp \in DataResponses : DataAnswered(resp)

-----------------------------------------------------------------------------
(* coordinator.py: _process_data *)

\* A solar or export array holds at most this many entries.
MaxLen == 2

\* The rotations of the refresh token that the token endpoint performs.
MaxRotations == 2

\* The coordinators that setups may create.
MaxSetups == 3

Coordinators == 1..MaxSetups

\* A coordinator as its constructor leaves it: self._unsub_refresh = None.
NoTimer == [armed |-> 0, unsub |-> "none", next_update |-> None, armed_at |-> 0]

\* The wall-clock hours of a period_from.
MaxWall == 1

\* The different account ids of a response.
NumAccounts == 2

Periods == {"daily", "monthly", "yearly"}

\* The "charge" of an entry: no such key, null, or an object whose type and
\* value may each be missing.
Charges ==
    { [kind |-> k, type |-> None, value |-> None] : k \in {"absent", "null"} }
    \cup { [kind |-> "object", type |-> Some("CREDIT"), value |-> Some(3)],
           [kind |-> "object", type |-> Some("DEBIT"), value |-> Some(4)],
           [kind |-> "object", type |-> Some("FREE"), value |-> Some(0)],
           [kind |-> "object", type |-> None, value |-> None] }

\* The entries of an array: one per charge, with consumption 1, 2 or
\* missing.
IntervalEntries ==
    { [consumption |-> IF c.type = Some("CREDIT") THEN Some(2)
                       ELSE IF c.type = Some("FREE") THEN None
                       ELSE Some(1),
       charge |-> c] : c \in Charges }

Arrays == UNION { [1..k -> IntervalEntries] : k \in 0..MaxLen }

\* data[period]: the period is missing (None) or holds the two arrays.
PeriodData == {None} \cup { Some([solar |-> a, export |-> b]) : a \in Arrays, b \in Arrays }

first_entry(a) == a[1]

\* period_data["solar"][-1]
latest_entry(a) == a[Len(a)]

\* d.get(key, default) for a key that may be missing
get(o, default) == IF o = None THEN default ELSE Val(o)

\* entry.get("charge", {}): a null charge is returned as it is, and the
\* .get that follows raises AttributeError.
charge_raises(entry) == entry.charge.kind = "null"

NoSnapshot ==
    [solar_consumption |-> None, solar_charge |-> None, solar_latest |-> None,
     grid_consumption |-> None, grid_charge |-> None, return_to_grid |-> None,
     return_to_grid_charge |-> None, grid_latest |-> None]

\* A variant of the export branch that fills the grid keys for a CREDIT
\* entry as well.
export_fields_both(snap, a) ==
    IF a = <<>> THEN snap
    ELSE LET latest_export == latest_entry(a)
             consumption   == get(latest_export.consumption, 0)
             charge_value  == get(latest_export.charge.value, 0)
         IN  [snap EXCEPT !.grid_consumption = Some(consumption),
                          !.grid_charge = Some(charge_value),
                          !.return_to_grid =
                              Some(IF latest_export.charge.type = Some("CREDIT")
                                   THEN consumption ELSE 0),
                          !.return_to_grid_charge =
                              Some(IF latest_export.charge.type = Some("CREDIT")
                                   THEN charge_value ELSE 0),
                          !.grid_latest = Some(latest_export)]

\* The solar keys of processed[period].
solar_fields(snap, a) ==
    IF a = <<>> THEN snap
    ELSE LET latest_solar == latest_entry(a)
         IN  [snap EXCEPT !.solar_consumption = Some(get(latest_solar.consumption, 0)),
                          !.solar_charge = Some(get(latest_solar.charge.value, 0)),
                          !.solar_latest = Some(latest_solar)]

\* The export keys of processed[period]: CREDIT routes the entry to
\* return-to-grid, every other type to grid consumption.
export_fields(snap, a) ==
    IF a = <<>> THEN snap
    ELSE LET latest_export == latest_entry(a)
             charge_type   == get(latest_export.charge.type, "DEBIT")
             consumption   == get(latest_export.consumption, 0)
             charge_value  == get(latest_export.charge.value, 0)
         IN  IF charge_type = "CREDIT"
             THEN [snap EXCEPT !.grid_consumption = Some(0),
                               !.grid_charge = Some(0),
                               !.return_to_grid = Some(consumption),
                               !.return_to_grid_charge = Some(charge_value),
                               !.grid_latest = Some(latest_export)]
             ELSE [snap EXCEPT !.grid_consumption = Some(consumption),
                               !.grid_charge = Some(charge_value),
                               !.return_to_grid = Some(0),
                               !.return_to_grid_charge = Some(0),
                               !.grid_latest = Some(latest_export)]

\* One round of the loop over the periods raises.
period_raises(pd) ==
    /\ pd # None
    /\ \/ Val(pd).solar # <<>> /\ charge_raises(latest_entry(Val(pd).solar))
       \/ Val(pd).export # <<>> /\ charge_raises(latest_entry(Val(pd).export))

\* OVOEnergyAUDataUpdateCoordinator._process_data
process_data(d) ==
    IF \E p \in Periods : period_raises(d[p])
    THEN [raised |-> TRUE, periods |-> [p \in Periods |-> NoSnapshot]]
    ELSE [raised |-> FALSE,
          periods |-> [p \in Periods |->
                          IF d[p] = None THEN NoSnapshot
                          ELSE export_fields(solar_fields(NoSnapshot, Val(d[p]).solar),
                                             Val(d[p]).export)]]

\* _async_update_data hands the interval data to _process_data.
ProcessData ==
    /\ processed = None
    /\ processed' = Some(process_data(interval_data))
    /\ UNCHANGED interval_data
    /\ UNCHANGED reduceFrame

ReduceNext == ProcessData

-----------------------------------------------------------------------------
(* coordinator.py: _process_hourly_data *)

\* The "consumption" of an hourly entry: no such key, null, or a number.
HourlyConsumptions ==
    { [kind |-> "absent", n |-> 0], [kind |-> "null", n |-> 0],
      [kind |-> "number", n |-> 1], [kind |-> "number", n |-> 2] }

\* The hourly entries: a DEBIT and a CREDIT entry with different
\* consumptions, an entry with neither consumption nor charge, one with a
\* null charge and one with a null consumption.
HourlyEntries ==
    { [consumption |-> [kind |-> "number", n |-> 1],
       charge |-> [kind |-> "object", type |-> Some("DEBIT"), value |-> Some(4)]],
      [consumption |-> [kind |-> "number", n |-> 2],
       charge |-> [kind |-> "object", type |-> Some("CREDIT"), value |-> Some(3)]],
      [consumption |-> [kind |-> "absent", n |-> 0],
       charge |-> [kind |-> "absent", type |-> None, value |-> None]],
      [consumption |-> [kind |-> "number", n |-> 1],
       charge |-> [kind |-> "null", type |-> None, value |-> None]],
      [consumption |-> [kind |-> "null", n |-> 0],
       charge |-> [kind |-> "object", type |-> Some("FREE"), value |-> Some(0)]] }

HourlyArrays == UNION { [1..k -> HourlyEntries] : k \in 0..MaxLen }

\* processed as _process_hourly_data initialises it; raised is set when the
\* call ends in an exception instead of returning.
EmptyHourly ==
    [raised |-> FALSE,
     solar_entries |-> <<>>, grid_entries |-> <<>>, return_to_grid_entries |-> <<>>,
     solar_total |-> 0, grid_total |-> 0, return_to_grid_total |-> 0]

HourlyRaised == [EmptyHourly EXCEPT !.raised = TRUE]

\* The element appended to solar_entries; the type has no default here.
solar_entry_data(entry) ==
    [consumption |-> entry.consumption.n,
     charge |-> get(entry.charge.value, 0),
     charge_type |-> entry.charge.type]

\* The element appended to grid_entries or return_to_grid_entries.
export_entry_data(entry) ==
    [consumption |-> entry.consumption.n,
     charge |-> get(entry.charge.value, 0),
     charge_type |-> Some(get(entry.charge.type, "DEBIT"))]

\* for entry in solar_entries: entry.get("charge", {}).get raises
\* AttributeError for a null charge, solar_total += None raises TypeError.
RECURSIVE solar_loop(_, _, _)
solar_loop(acc, entries, i) ==
    IF i > Len(entries) THEN acc
    ELSE LET entry == entries[i]
         IN  IF entry.charge.kind = "null" \/ entry.consumption.kind = "null"
             THEN HourlyRaised
             ELSE solar_loop([acc EXCEPT !.solar_entries = Append(@, solar_entry_data(entry)),
                                         !.solar_total = @ + entry.consumption.n],
                             entries, i + 1)

\* for entry in export_entries: a null charge is read as {}; the total's
\* += None raises TypeError.
RECURSIVE export_loop(_, _, _)
export_loop(acc, entries, i) ==
    IF i > Len(entries) THEN acc
    ELSE LET entry      == entries[i]
             entry_data == export_entry_data(entry)
         IN  IF entry.consumption.kind = "null"
             THEN HourlyRaised
             ELSE IF entry_data.charge_type = Some("CREDIT")
             THEN export_loop([acc EXCEPT !.return_to_grid_entries = Append(@, entry_data),
                                          !.return_to_grid_total = @ + entry.consumption.n],
                              entries, i + 1)
             ELSE export_loop([acc EXCEPT !.grid_entries = Append(@, entry_data),
                                          !.grid_total = @ + entry.consumption.n],
                              entries, i + 1)

\* OVOEnergyAUDataUpdateCoordinator._process_hourly_data
process_hourly_series(d) ==
    LET after_solar == solar_loop(EmptyHourly, d.solar, 1)
    IN  IF after_solar.raised THEN HourlyRaised
        ELSE export_loop(after_solar, d.export, 1)

\* _async_update_data hands the hourly data to _process_hourly_data.
ProcessHourlyData ==
    /\ hourly_processed = None
    /\ hourly_processed' = Some(process_hourly_series(hourly_data))
    /\ UNCHANGED hourly_data
    /\ UNCHANGED hourlyFrame

HourlyNext == ProcessHourlyData

-----------------------------------------------------------------------------
(* __init__.py: the config entry's tokens and the setup of the client *)

\* entry.data as the config flow writes it: the OAuth2 flow stores the token
\* response under "token", the manual flow stores the tokens under flat keys
\* and no expires_in.  issued_at is history: when the tokens were written.
EntryData ==
    { [kind |-> "token", blob |-> b, issued_at |-> 0] : b \in ClientBlobs }
    \cup { [kind |-> "flat", blob |-> b, issued_at |-> 0] :
              b \in { c \in ClientBlobs : c.expires_in = None } }

\* new_data of async_setup_entry: the entry's data with the tokens of the
\* refresh response written over it; refresh_token and expires_in only when
\* the response has them, expires_in only under "token".
new_data(entry, new_token_data) ==
    [kind |-> entry.kind, issued_at |-> clock,
     blob |-> [n |-> new_token_data.n, has_access |-> TRUE, has_id |-> TRUE,
               refresh |-> IF new_token_data.refresh # None
                           THEN new_token_data.refresh ELSE entry.blob.refresh,
               expires_in |-> IF entry.kind = "token" /\ new_token_data.expires_in # None
                              THEN new_token_data.expires_in
                              ELSE entry.blob.expires_in]]

\* The access, id and refresh token that entry.data holds.
persisted_tokens ==
    [access_token |-> Some(config_entry.blob.n), id_token |-> Some(config_entry.blob.n),
     refresh_token |-> config_entry.blob.refresh]

\* The access, id and refresh token that the client holds in memory.
memory_tokens ==
    [access_token |-> access_token, id_token |-> id_token,
     refresh_token |-> refresh_token]

\* async_setup_entry, up to set_tokens: a new client gets the entry's tokens.
AsyncSetupEntry ==
    /\ setup = "unloaded"
    /\ LET blob == config_entry.blob
           r == AfterSet(set_tokens(clock, blob.n, blob.n, blob.refresh,
                                    IF config_entry.kind = "token" THEN blob.expires_in
                                    ELSE None),
                         "OverflowError")
       IN  /\ Store(r.fields)
           /\ token_data' = blob
           /\ result' = [op |-> "set_tokens", outcome |-> r.outcome, at |-> clock,
                         status |-> 0]
           /\ setup' = IF r.outcome = "ok" THEN "loaded" ELSE "failed"
    /\ UNCHANGED <<clock, config_entry, last_refresh>>
    /\ UNCHANGED entryFrame

\* async_setup_entry: the proactive refresh of an expired token, and the
\* write of the new tokens to the config entry.
SetupRefreshAnswered(resp) ==
    /\ setup = "loaded"
    /\ token_expired /\ refresh_token # None
    /\ LET r == refresh_tokens(resp)
       IN  /\ Store(r.fields)
           /\ token_data' = resp.body
           /\ result' = [op |-> "refresh", outcome |-> r.outcome, at |-> clock,
                         status |-> resp.status]
           /\ IF r.outcome = "ok"
              THEN /\ config_entry' = new_data(config_entry, resp.body)
                   /\ setup' = "ready"
                   /\ last_refresh' = "setup"
              ELSE /\ setup' = "failed"
                   /\ UNCHANGED <<config_entry, last_refresh>>
    /\ UNCHANGED clock
    /\ UNCHANGED entryFrame

\* async_setup_entry with a token that is not expired, or without a refresh
\* token: setup goes on with the tokens loaded.
SetupProceeds ==
    /\ setup = "loaded"
    /\ ~(token_expired /\ refresh_token # None)
    /\ setup' = "ready"
    /\ UNCHANGED <<tokenVars, config_entry, last_refresh>>
    /\ UNCHANGED entryFrame

\* _ensure_authenticated of a data call after setup: the token has expired
\* and refresh_tokens is awaited; nothing here touches the config entry.
InlineRefreshAnswered(resp) ==
    /\ setup = "ready"
    /\ ensure_authenticated = "refresh"
    /\ LET r == refresh_tokens(resp)
       IN  /\ Store(r.fields)
           /\ token_data' = resp.body
           /\ result' = [op |-> "refresh", outcome |-> r.outcome, at |-> clock,
                         status |-> resp.status]
           /\ last_refresh' = IF r.outcome = "ok" THEN "inline" ELSE "inline failed"
    /\ UNCHANGED <<clock, config_entry, setup>>
    /\ UNCHANGED entryFrame

\* async_unload_entry (also the first half of async_reload_entry, and a
\* restart): the client is dropped, entry.data stays.
AsyncUnloadEntry ==
    /\ setup \in {"ready", "failed"}
    /\ setup' = "unloaded"
    /\ last_refresh' = "none"
    /\ access_token' = None
    /\ id_token' = None
    /\ refresh_token' = None
    /\ token_expires_at' = None
    /\ expires_origin' = 0
    /\ token_data' = NoData
    /\ result' = [op |-> "init", outcome |-> "ok", at |-> clock, status |-> 0]
    /\ UNCHANGED <<clock, config_entry>>
    /\ UNCHANGED entryFrame

EntryNext ==
    \/ Tick
    \/ AsyncSetupEntry
    \/ \E resp \in RefreshAnswers : SetupRefreshAnswered(resp)
    \/ SetupProceeds
    \/ \E resp \in RefreshAnswers : InlineRefreshAnswered(resp)
    \/ AsyncUnloadEntry

-----------------------------------------------------------------------------
(* api.py: get_account_ids, get_account_id *)

\* The "id" of an account, a number in the response.
AccountIds == 1..NumAccounts

\* An account of the response: its id and its "closed" key, which is not
\* there, null, false or true.
Accounts == [id : AccountIds, closed : {"absent", "null", "false", "true"}]

\* The GetContactInfo result: its "accounts" key is not there, null, or a
\* list of accounts.
ContactInfos ==
    { [kind |-> k, accounts |-> <<>>] : k \in {"absent", "null"} }
    \cup { [kind |-> "list", accounts |-> l] :
              l \in UNION { [1..k -> Accounts] : k \in 0..MaxLen } }

\* str(account["id"])
str(id) == ToString(id)

\* a.get("closed", False), as the condition of the filter reads it.
closed(a) == a.closed = "true"

all_accounts(accounts) == accounts

\* [a for a in accounts if not a.get("closed", False)]
active_accounts(accounts) == SelectSeq(accounts, LAMBDA a : ~closed(a))

\* OVOEnergyAUApiClient.get_account_ids, given the contact info: iterating
\* over a null "accounts" raises TypeError.
get_account_ids(info) ==
    IF info.kind = "null" THEN [outcome |-> "TypeError", ids |-> <<>>]
    ELSE LET accounts == IF info.kind = "absent" THEN <<>> ELSE info.accounts
             active   == active_accounts(accounts)
         IN  IF active = <<>>
             THEN [outcome |-> "OVOEnergyAUApiClientError", ids |-> <<>>]
             ELSE [outcome |-> "ok",
                   ids |-> [i \in 1..Len(active) |-> str(active[i].id)]]

\* OVOEnergyAUApiClient.get_account_id
get_account_id(info) ==
    LET r == get_account_ids(info)
    IN  IF r.outcome # "ok" THEN [outcome |-> r.outcome, id |-> ""]
        ELSE IF r.ids = <<>> THEN [outcome |-> "OVOEnergyAUApiClientError", id |-> ""]
        ELSE [outcome |-> "ok", id |-> r.ids[1]]

\* One call of get_account_id.
GetAccountId ==
    /\ account_id = None
    /\ account_id' = Some(get_account_id(contact_info))
    /\ UNCHANGED contact_info
    /\ UNCHANGED accountFrame

AccountNext == GetAccountId

-----------------------------------------------------------------------------
(* sensor.py: the timestamps of the statistics *)

\* A datetime: its wall-clock fields as an hour count, and the UTC offset
\* of its tzinfo in hours, None for a naive datetime.
Datetime(wall, utcoffset) == [parsed |-> TRUE, wall |-> wall, utcoffset |-> utcoffset]

\* What dt_util.parse_datetime returns for a string it cannot parse.
Unparsed == [parsed |-> FALSE, wall |-> 0, utcoffset |-> None]

\* dt_util.parse_datetime of the "period_from" strings: a wall-clock hour
\* with the marker Z, with the offset +10:00 or with no marker, or a string
\* that does not parse.
PeriodFroms ==
    { Datetime(w, o) : w \in 0..MaxWall, o \in {Some(0), Some(10), None} } \cup {Unparsed}

\* The batches of one import, in the order entries.sort leaves them.
PeriodFromBatches ==
    { b \in UNION { [1..k -> PeriodFroms] : k \in 1..MaxLen } :
        \A i \in 1..(Len(b) - 1) : b[i].wall <= b[i + 1].wall }

\* The zones Home Assistant may be configured with, as UTC offsets.
TimeZones == {-5, 0, 10}

\* The instant of an aware datetime, in hours UTC.
Instant(t) == t.wall - Val(t.utcoffset)

\* start_time.astimezone(zone): the same instant in the other zone (a naive
\* datetime is taken as UTC here).
as_timezone(t, zone) ==
    Datetime(t.wall - (IF t.utcoffset = None THEN 0 ELSE Val(t.utcoffset)) + zone, Some(zone))

\* start_time.replace(tzinfo=None).replace(tzinfo=zone): the wall-clock
\* fields stay, the zone is replaced.
replace_tzinfo(t, zone) == Datetime(t.wall, Some(zone))

\* first_entry_time, with dt_util.now() when the first string does not parse,
\* and the lookback window of the checkpoint query.
first_entry_window(first, zone) ==
    LET first_entry_time == IF first.parsed THEN replace_tzinfo(first, zone)
                            ELSE Datetime(local_now, Some(zone))
    IN  [first_entry_time |-> first_entry_time,
         lookback_start |-> Datetime(first_entry_time.wall - LOOKBACK_HOURS, Some(zone)),
         lookback_end |-> first_entry_time]

RECURSIVE start_times(_, _)
\* The loop over the entries: an entry whose string does not parse is
\* skipped, every other start_time has its zone replaced.
start_times(strings, zone) ==
    IF strings = <<>> THEN <<>>
    ELSE IF ~Head(strings).parsed THEN start_times(Tail(strings), zone)
    ELSE <<replace_tzinfo(Head(strings), zone)>> \o start_times(Tail(strings), zone)

\* One run of _async_import_statistics, as far as its timestamps go.
ImportTimestamps ==
    /\ stamped = None
    /\ stamped' = Some([window |-> first_entry_window(period_froms[1], default_time_zone),
                        start |-> start_times(period_froms, default_time_zone)])
    /\ UNCHANGED <<period_froms, default_time_zone>>
    /\ UNCHANGED stampFrame

StampNext == ImportTimestamps

-----------------------------------------------------------------------------
(* __init__.py: setup, unload and reload of the config entry *)

\* The steps of async_setup_entry that can fail, in order: the proactive
\* token refresh, the lookup of the account id, the first refresh.
FailingSteps == <<"token", "account", "first_refresh">>

SetupSteps == {"token", "account", "first_refresh", "schedule", "store", "register"}

SetTimers(g, t) == timers' = [timers EXCEPT ![g] = t]

\* A variant that goes on with the setup whatever the first refresh did.
after_first_refresh_anyway(ok) == "schedule"

\* async_config_entry_first_refresh raises ConfigEntryNotReady when the
\* first poll failed, which ends async_setup_entry before its next line.
after_first_refresh(ok) == IF ok THEN "schedule" ELSE "failed"

\* coordinator.async_start_scheduled_updates()
async_start_scheduled_updates(t) == schedule_next_refresh(t)

\* async_setup_entry is called for an entry that is not set up; a failed
\* setup is tried again by a reload.
AsyncSetupStart ==
    /\ setup_pc \in {"not loaded", "failed"}
    /\ coordinators < MaxSetups
    /\ setup_pc' = "token"
    /\ coordinator' = 0
    /\ UNCHANGED <<coordinators, timers, scheduled_poll, first_refresh_ok, unloaded,
                   hass_data, services>>
    /\ UNCHANGED setupFrame

\* The proactive refresh ends: an error is raised again and ends the setup.
SetupTokenStep(ok) ==
    /\ setup_pc = "token"
    /\ setup_pc' = IF ok THEN "account" ELSE "failed"
    /\ UNCHANGED <<coordinators, coordinator, timers, scheduled_poll, first_refresh_ok,
                   unloaded, hass_data, services>>
    /\ UNCHANGED setupFrame

\* get_account_id returns or raises; with an id the coordinator is created
\* and its first refresh begins.
SetupAccountStep(ok) ==
    /\ setup_pc = "account"
    /\ IF ok
       THEN /\ setup_pc' = "first_refresh"
            /\ coordinators' = coordinators + 1
            /\ coordinator' = coordinators + 1
       ELSE /\ setup_pc' = "failed"
            /\ UNCHANGED <<coordinators, coordinator>>
    /\ UNCHANGED <<timers, scheduled_poll, first_refresh_ok, unloaded, hass_data, services>>
    /\ UNCHANGED setupFrame

\* async_config_entry_first_refresh returns, or raises ConfigEntryNotReady.
SetupFirstRefreshStep(ok) ==
    /\ setup_pc = "first_refresh"
    /\ setup_pc' = after_first_refresh(ok)
    /\ first_refresh_ok' = [first_refresh_ok EXCEPT ![coordinator] = ok]
    /\ UNCHANGED <<coordinators, coordinator, timers, scheduled_poll, unloaded,
                   hass_data, services>>
    /\ UNCHANGED setupFrame

\* await coordinator.async_start_scheduled_updates()
SetupSchedule ==
    /\ setup_pc = "schedule"
    /\ setup_pc' = "store"
    /\ SetTimers(coordinator, async_start_scheduled_updates(timers[coordinator]))
    /\ UNCHANGED <<coordinators, coordinator, scheduled_poll, first_refresh_ok, unloaded,
                   hass_data, services>>
    /\ UNCHANGED setupFrame

\* hass.data[DOMAIN][entry.entry_id] = coordinator, and the platforms are
\* set up.
SetupStore ==
    /\ setup_pc = "store"
    /\ setup_pc' = "register"
    /\ hass_data' = coordinator
    /\ UNCHANGED <<coordinators, coordinator, timers, scheduled_poll, first_refresh_ok,
                   unloaded, services>>
    /\ UNCHANGED setupFrame

\* hass.services.async_register(DOMAIN, "refresh_data", handle_refresh_data):
\* the handler of this setup replaces a handler registered before.
SetupRegister ==
    /\ setup_pc = "register"
    /\ setup_pc' = "loaded"
    /\ services' = coordinator
    /\ UNCHANGED <<coordinators, coordinator, timers, scheduled_poll, first_refresh_ok,
                   unloaded, hass_data>>
    /\ UNCHANGED setupFrame

\* async_unload_entry: the platforms are unloaded and the coordinator is
\* popped from hass.data.  Nothing here cancels the timer; removing the
\* last listener makes the inherited coordinator call and clear
\* self._unsub_refresh, which holds the handle of the timer last armed.
AsyncUnloadEntryTimers ==
    /\ setup_pc = "loaded"
    /\ setup_pc' = "not loaded"
    /\ hass_data' = 0
    /\ SetTimers(coordinator, cancelled(timers[coordinator]))
    /\ unloaded' = [unloaded EXCEPT ![coordinator] = TRUE]
    /\ UNCHANGED <<coordinators, coordinator, scheduled_poll, first_refresh_ok, services>>
    /\ UNCHANGED setupFrame

\* The 02:00 timer of coordinator g fires: _async_scheduled_refresh requests
\* a refresh.  runs: the refresh runs; a coordinator that Home Assistant has
\* shut down may ignore the request, and the handler then re-arms at once.
TimerFires(g, runs) ==
    /\ timers[g].armed > 0
    /\ ~scheduled_poll[g]
    /\ runs \/ unloaded[g]
    /\ IF runs
       THEN /\ SetTimers(g, cancelled(fired(timers[g])))
            /\ scheduled_poll' = [scheduled_poll EXCEPT ![g] = TRUE]
       ELSE /\ SetTimers(g, schedule_next_refresh(fired(timers[g])))
            /\ UNCHANGED scheduled_poll
    /\ UNCHANGED <<setup_pc, coordinators, coordinator, first_refresh_ok, unloaded,
                   hass_data, services>>
    /\ UNCHANGED setupFrame

\* The poll that the timer's handler requested ends: the handler arms the
\* timer for the next day, loaded or not.
ScheduledPollEnds(g) ==
    /\ scheduled_poll[g]
    /\ scheduled_poll' = [scheduled_poll EXCEPT ![g] = FALSE]
    /\ SetTimers(g, schedule_next_refresh(timers[g]))
    /\ UNCHANGED <<setup_pc, coordinators, coordinator, first_refresh_ok, unloaded,
                   hass_data, services>>
    /\ UNCHANGED setupFrame

SetupNext ==
    \/ AsyncSetupStart
    \/ \E ok \in BOOLEAN : SetupTokenStep(ok)
    \/ \E ok \in BOOLEAN : SetupAccountStep(ok)
    \/ \E ok \in BOOLEAN : SetupFirstRefreshStep(ok)
    \/ SetupSchedule
    \/ SetupStore
    \/ SetupRegister
    \/ AsyncUnloadEntryTimers
    \/ \E g \in Coordinators, runs \in BOOLEAN : TimerFires(g, runs)
    \/ \E g \in Coordinators : ScheduledPollEnds(g)

-----------------------------------------------------------------------------
(* api.py: token refreshes of concurrent callers of one client *)

TokenEndpointAnswers == {"rotated", "same", "error"}

\* A variant without the exclusion: every request starts a poll.
lock_ignored(l) == TRUE

\* The request debouncer of the inherited coordinator runs a refresh only
\* when no other holds its execute lock; the client has no lock of its own.
lock_free(l) == l = "none"

\* The poll of caller r is over: the lock is given back.
CallerDone(r) ==
    /\ call_pc' = [call_pc EXCEPT ![r] = "idle"]
    /\ call_stage' = [call_stage EXCEPT ![r] = "interval"]
    /\ execute_lock' = IF execute_lock = r THEN "none" ELSE execute_lock

\* coordinator.async_request_refresh() by caller r: the poll starts with the
\* interval call, or the request is dropped.
RequestRefresh(r) ==
    /\ call_pc[r] = "idle"
    /\ IF lock_free(execute_lock)
       THEN /\ execute_lock' = r
            /\ call_pc' = [call_pc EXCEPT ![r] = "ensure"]
            /\ UNCHANGED requests_dropped
       ELSE /\ requests_dropped' = (requests_dropped \/
                                     \E q \in Runners : call_pc[q] = "refreshing")
            /\ UNCHANGED <<execute_lock, call_pc>>
    /\ UNCHANGED <<call_stage, held_refresh_token, access_stale, sent_refresh_token,
                   server_refresh_token, refresh_rejected, last_refresher>>
    /\ UNCHANGED refreshFrame

\* _ensure_authenticated: with an expired token, refresh_tokens posts the
\* stored refresh token; otherwise the data request goes out.
EnsureAuthenticated(r) ==
    /\ call_pc[r] = "ensure"
    /\ IF access_stale
       THEN /\ call_pc' = [call_pc EXCEPT ![r] = "refreshing"]
            /\ sent_refresh_token' = [sent_refresh_token EXCEPT ![r] = held_refresh_token]
       ELSE /\ call_pc' = [call_pc EXCEPT ![r] = "calling"]
            /\ UNCHANGED sent_refresh_token
    /\ UNCHANGED <<call_stage, execute_lock, held_refresh_token, access_stale,
                   server_refresh_token, refresh_rejected, requests_dropped, last_refresher>>
    /\ UNCHANGED refreshFrame

\* The token endpoint answers the refresh of caller r.  A token it no longer
\* accepts is turned down with 403; otherwise it answers with a new refresh
\* token, without one, or with an error of its own.  set_tokens stores
\* token_data.get("refresh_token", self._refresh_token); an error ends the
\* poll.
RefreshTokensAnswered(r, answer) ==
    /\ call_pc[r] = "refreshing"
    /\ answer = "rotated" => server_refresh_token < MaxRotations
    /\ last_refresher' = r
    /\ IF sent_refresh_token[r] # server_refresh_token
       THEN /\ refresh_rejected' = TRUE
            /\ CallerDone(r)
            /\ UNCHANGED <<held_refresh_token, access_stale, server_refresh_token>>
       ELSE /\ UNCHANGED refresh_rejected
            /\ CASE answer = "rotated" ->
                      /\ server_refresh_token' = server_refresh_token + 1
                      /\ held_refresh_token' = server_refresh_token + 1
                      /\ access_stale' = FALSE
                      /\ call_pc' = [call_pc EXCEPT ![r] = "calling"]
                      /\ UNCHANGED <<call_stage, execute_lock>>
                 [] answer = "same" ->
                      /\ held_refresh_token' = sent_refresh_token[r]
                      /\ access_stale' = FALSE
                      /\ call_pc' = [call_pc EXCEPT ![r] = "calling"]
                      /\ UNCHANGED <<call_stage, execute_lock, server_refresh_token>>
                 [] OTHER ->
                      /\ CallerDone(r)
                      /\ UNCHANGED <<held_refresh_token, access_stale, server_refresh_token>>
    /\ UNCHANGED <<sent_refresh_token, requests_dropped>>
    /\ UNCHANGED refreshFrame

\* The data request of caller r is answered: after the interval call the
\* poll goes on to get_hourly_data, which calls _ensure_authenticated again;
\* after the hourly call, or an error, it ends.
DataCallAnswered(r, ok) ==
    /\ call_pc[r] = "calling"
    /\ IF ok /\ call_stage[r] = "interval"
       THEN /\ call_stage' = [call_stage EXCEPT ![r] = "hourly"]
            /\ call_pc' = [call_pc EXCEPT ![r] = "ensure"]
            /\ UNCHANGED execute_lock
       ELSE CallerDone(r)
    /\ UNCHANGED <<held_refresh_token, access_stale, sent_refresh_token,
                   server_refresh_token, refresh_rejected, requests_dropped, last_refresher>>
    /\ UNCHANGED refreshFrame

\* The lifetime of the access token passes.
AccessTokenExpires ==
    /\ ~access_stale
    /\ access_stale' = TRUE
    /\ UNCHANGED <<call_pc, call_stage, execute_lock, held_refresh_token,
                   sent_refresh_token, server_refresh_token, refresh_rejected,
                   requests_dropped, last_refresher>>
    /\ UNCHANGED refreshFrame

RefreshNext ==
    \/ \E r \in Runners : RequestRefresh(r)
    \/ \E r \in Runners : EnsureAuthenticated(r)
    \/ \E r \in Runners, answer \in TokenEndpointAnswers : RefreshTokensAnswered(r, answer)
    \/ \E r \in Runners, ok \in BOOLEAN : DataCallAnswered(r, ok)
    \/ AccessTokenExpires

-----------------------------------------------------------------------------
(* The specifications *)

\* The token store starts as OVOEnergyAUApiClient.__init__ leaves it; the
\* statistics part is at rest.
TokenInit ==
    /\ clock = 0
    /\ access_token = None
    /\ id_token = None
    /\ refresh_token = None
    /\ token_expires_at = None
    /\ token_data = NoData
    /\ result = [op |-> "init", outcome |-> "ok", at |-> 0, status |-> 0]
    /\ expires_origin = 0
    /\ upstream = [h \in Hours |-> None]
    /\ window = <<0, 0>>
    /\ hourly = <<>>
    /\ import_tasks = 0
    /\ store = [h \in Hours |-> None]
    /\ last_sum = 0
    /\ statistics = <<>>
    /\ polls = [r \in Runners |-> "idle"]
    /\ lock_owner = "none"
    /\ cooldown_timer = FALSE
    /\ execute_at_end = FALSE
    /\ armed = 1
    /\ unsub_refresh = "live"
    /\ next_update = Some(UPDATE_HOUR)
    /\ armed_at = 0
    /\ local_now = 0
    /\ since_fire = "none"
    /\ last_update_success = TRUE
    /\ data = [interval |-> "i1", hourly |-> "h1"]
    /\ processed_data = [r \in Runners |-> "none"]
    /\ update_tasks = 0
    /\ imported = "none"
    /\ ep_requests = 0
    /\ ep_interval = 0
    /\ ep_hourly = 0
    /\ call = NoCall
    /\ http_log = <<>>
    /\ login = NoLogin
    /\ interval_data = [p \in Periods |-> None]
    /\ processed = None
    /\ hourly_data = [solar |-> <<>>, export |-> <<>>]
    /\ hourly_processed = None
    /\ config_entry = [kind |-> "flat", blob |-> NoData, issued_at |-> 0]
    /\ setup = "unloaded"
    /\ last_refresh = "none"
    /\ contact_info = [kind |-> "absent", accounts |-> <<>>]
    /\ account_id = None
    /\ period_froms = <<>>
    /\ default_time_zone = 0
    /\ stamped = None
    /\ setup_pc = "not loaded"
    /\ coordinators = 0
    /\ coordinator = 0
    /\ timers = [g \in Coordinators |-> NoTimer]
    /\ scheduled_poll = [g \in Coordinators |-> FALSE]
    /\ first_refresh_ok = [g \in Coordinators |-> FALSE]
    /\ unloaded = [g \in Coordinators |-> FALSE]
    /\ hass_data = 0
    /\ services = 0
    /\ call_pc = [r \in Runners |-> "idle"]
    /\ call_stage = [r \in Runners |-> "interval"]
    /\ execute_lock = "none"
    /\ held_refresh_token = 0
    /\ access_stale = TRUE
    /\ sent_refresh_token = [r \in Runners |-> 0]
    /\ server_refresh_token = 0
    /\ refresh_rejected = FALSE
    /\ requests_dropped = FALSE
    /\ last_refresher = "none"

SpecToken == TokenInit /\ [][TokenNext]_vars

\* The statistics part starts with an empty store and any upstream series;
\* the token store is as __init__ leaves it.
StatsInit ==
    /\ upstream \in UpstreamSeries
    /\ window = <<0, 0>>
    /\ hourly = <<>>
    /\ import_tasks = 0
    /\ store = [h \in Hours |-> None]
    /\ last_sum = 0
    /\ statistics = <<>>
    /\ clock = 0
    /\ access_token = None
    /\ id_token = None
    /\ refresh_token = None
    /\ token_expires_at = None
    /\ token_data = NoData
    /\ result = [op |-> "init", outcome |-> "ok", at |-> 0, status |-> 0]
    /\ expires_origin = 0
    /\ polls = [r \in Runners |-> "idle"]
    /\ lock_owner = "none"
    /\ cooldown_timer = FALSE
    /\ execute_at_end = FALSE
    /\ armed = 1
    /\ unsub_refresh = "live"
    /\ next_update = Some(UPDATE_HOUR)
    /\ armed_at = 0
    /\ local_now = 0
    /\ since_fire = "none"
    /\ last_update_success = TRUE
    /\ data = [interval |-> "i1", hourly |-> "h1"]
    /\ processed_data = [r \in Runners |-> "none"]
    /\ update_tasks = 0
    /\ imported = "none"
    /\ ep_requests = 0
    /\ ep_interval = 0
    /\ ep_hourly = 0
    /\ call = NoCall
    /\ http_log = <<>>
    /\ login = NoLogin
    /\ interval_data = [p \in Periods |-> None]
    /\ processed = None
    /\ hourly_data = [solar |-> <<>>, export |-> <<>>]
    /\ hourly_processed = None
    /\ config_entry = [kind |-> "flat", blob |-> NoData, issued_at |-> 0]
    /\ setup = "unloaded"
    /\ last_refresh = "none"
    /\ contact_info = [kind |-> "absent", accounts |-> <<>>]
    /\ account_id = None
    /\ period_froms = <<>>
    /\ default_time_zone = 0
    /\ stamped = None
    /\ setup_pc = "not loaded"
    /\ coordinators = 0
    /\ coordinator = 0
    /\ timers = [g \in Coordinators |-> NoTimer]
    /\ scheduled_poll = [g \in Coordinators |-> FALSE]
    /\ first_refresh_ok = [g \in Coordinators |-> FALSE]
    /\ unloaded = [g \in Coordinators |-> FALSE]
    /\ hass_data = 0
    /\ services = 0
    /\ call_pc = [r \in Runners |-> "idle"]
    /\ call_stage = [r \in Runners |-> "interval"]
    /\ execute_lock = "none"
    /\ held_refresh_token = 0
    /\ access_stale = TRUE
    /\ sent_refresh_token = [r \in Runners |-> 0]
    /\ server_refresh_token = 0
    /\ refresh_rejected = FALSE
    /\ requests_dropped = FALSE
    /\ last_refresher = "none"

SpecStats == StatsInit /\ [][StatsNext]_vars

\* The coordinator as async_setup_entry leaves it: the first refresh has
\* succeeded, the 02:00 timer is armed, the refresh_data service is
\* registered.  The other parts are at rest.
PollInit ==
    /\ polls = [r \in Runners |-> "idle"]
    /\ lock_owner = "none"
    /\ cooldown_timer = FALSE
    /\ execute_at_end = FALSE
    /\ armed = 1
    /\ unsub_refresh = "live"
    /\ local_now \in StartHours
    /\ armed_at = local_now
    /\ next_update = Some(next_update_at(local_now))
    /\ since_fire = "none"
    /\ last_update_success = TRUE
    /\ data \in Published
    /\ processed_data = [r \in Runners |-> "none"]
    /\ update_tasks = 0
    /\ imported \in {"none"} \cup (IF data.hourly = "empty" THEN {} ELSE {data.hourly})
    /\ ep_requests = 0
    /\ ep_interval = 0
    /\ ep_hourly = 0
    /\ call = NoCall
    /\ http_log = <<>>
    /\ login = NoLogin
    /\ interval_data = [p \in Periods |-> None]
    /\ processed = None
    /\ clock = 0
    /\ access_token = None
    /\ id_token = None
    /\ refresh_token = None
    /\ token_expires_at = None
    /\ token_data = NoData
    /\ result = [op |-> "init", outcome |-> "ok", at |-> 0, status |-> 0]
    /\ expires_origin = 0
    /\ upstream = [h \in Hours |-> None]
    /\ window = <<0, 0>>
    /\ hourly = <<>>
    /\ import_tasks = 0
    /\ store = [h \in Hours |-> None]
    /\ last_sum = 0
    /\ statistics = <<>>
    /\ hourly_data = [solar |-> <<>>, export |-> <<>>]
    /\ hourly_processed = None
    /\ config_entry = [kind |-> "flat", blob |-> NoData, issued_at |-> 0]
    /\ setup = "unloaded"
    /\ last_refresh = "none"
    /\ contact_info = [kind |-> "absent", accounts |-> <<>>]
    /\ account_id = None
    /\ period_froms = <<>>
    /\ default_time_zone = 0
    /\ stamped = None
    /\ setup_pc = "not loaded"
    /\ coordinators = 0
    /\ coordinator = 0
    /\ timers = [g \in Coordinators |-> NoTimer]
    /\ scheduled_poll = [g \in Coordinators |-> FALSE]
    /\ first_refresh_ok = [g \in Coordinators |-> FALSE]
    /\ unloaded = [g \in Coordinators |-> FALSE]
    /\ hass_data = 0
    /\ services = 0
    /\ call_pc = [r \in Runners |-> "idle"]
    /\ call_stage = [r \in Runners |-> "interval"]
    /\ execute_lock = "none"
    /\ held_refresh_token = 0
    /\ access_stale = TRUE
    /\ sent_refresh_token = [r \in Runners |-> 0]
    /\ server_refresh_token = 0
    /\ refresh_rejected = FALSE
    /\ requests_dropped = FALSE
    /\ last_refresher = "none"

SpecPoll == PollInit /\ [][PollNext]_vars

\* A client that is new, or whose tokens async_setup_entry has set from a
\* persisted blob; no call is running.  The other parts are at rest.
ClientInit ==
    /\ clock = 0
    /\ \E blob \in ClientBlobs \cup {NoData} :
          /\ token_data = blob
          /\ IF blob = NoData
             THEN /\ access_token = None
                  /\ id_token = None
                  /\ refresh_token = None
                  /\ token_expires_at = None
                  /\ expires_origin = 0
                  /\ result = [op |-> "init", outcome |-> "ok", at |-> 0, status |-> 0]
             ELSE /\ access_token = Some(blob.n)
                  /\ id_token = Some(blob.n)
                  /\ refresh_token = blob.refresh
                  /\ token_expires_at = compute_expiry(0, blob.n, blob.expires_in)
                  /\ expires_origin = blob.n
                  /\ result = [op |-> "set_tokens", outcome |-> "ok", at |-> 0, status |-> 0]
    /\ call = NoCall
    /\ http_log = <<>>
    /\ login = NoLogin
    /\ interval_data = [p \in Periods |-> None]
    /\ processed = None
    /\ upstream = [h \in Hours |-> None]
    /\ window = <<0, 0>>
    /\ hourly = <<>>
    /\ import_tasks = 0
    /\ store = [h \in Hours |-> None]
    /\ last_sum = 0
    /\ statistics = <<>>
    /\ polls = [r \in Runners |-> "idle"]
    /\ lock_owner = "none"
    /\ cooldown_timer = FALSE
    /\ execute_at_end = FALSE
    /\ armed = 1
    /\ unsub_refresh = "live"
    /\ next_update = Some(UPDATE_HOUR)
    /\ armed_at = 0
    /\ local_now = 0
    /\ since_fire = "none"
    /\ last_update_success = TRUE
    /\ data = [interval |-> "i1", hourly |-> "h1"]
    /\ processed_data = [r \in Runners |-> "none"]
    /\ update_tasks = 0
    /\ imported = "none"
    /\ ep_requests = 0
    /\ ep_interval = 0
    /\ ep_hourly = 0
    /\ hourly_data = [solar |-> <<>>, export |-> <<>>]
    /\ hourly_processed = None
    /\ config_entry = [kind |-> "flat", blob |-> NoData, issued_at |-> 0]
    /\ setup = "unloaded"
    /\ last_refresh = "none"
    /\ contact_info = [kind |-> "absent", accounts |-> <<>>]
    /\ account_id = None
    /\ period_froms = <<>>
    /\ default_time_zone = 0
    /\ stamped = None
    /\ setup_pc = "not loaded"
    /\ coordinators = 0
    /\ coordinator = 0
    /\ timers = [g \in Coordinators |-> NoTimer]
    /\ scheduled_poll = [g \in Coordinators |-> FALSE]
    /\ first_refresh_ok = [g \in Coordinators |-> FALSE]
    /\ unloaded = [g \in Coordinators |-> FALSE]
    /\ hass_data = 0
    /\ services = 0
    /\ call_pc = [r \in Runners |-> "idle"]
    /\ call_stage = [r \in Runners |-> "interval"]
    /\ execute_lock = "none"
    /\ held_refresh_token = 0
    /\ access_stale = TRUE
    /\ sent_refresh_token = [r \in Runners |-> 0]
    /\ server_refresh_token = 0
    /\ refresh_rejected = FALSE
    /\ requests_dropped = FALSE
    /\ last_refresher = "none"

SpecClient == ClientInit /\ [][ClientNext]_vars

\* An interval answer in which one period holds a solar and an export
\* array; _process_data has not run.  The other parts are at rest.
ReduceInit ==
    /\ \E q \in Periods, pd \in PeriodData \ {None} :
          interval_data = [p \in Periods |-> IF p = q THEN pd ELSE None]
    /\ processed = None
    /\ clock = 0
    /\ access_token = None
    /\ id_token = None
    /\ refresh_token = None
    /\ token_expires_at = None
    /\ token_data = NoData
    /\ result = [op |-> "init", outcome |-> "ok", at |-> 0, status |-> 0]
    /\ expires_origin = 0
    /\ upstream = [h \in Hours |-> None]
    /\ window = <<0, 0>>
    /\ hourly = <<>>
    /\ import_tasks = 0
    /\ store = [h \in Hours |-> None]
    /\ last_sum = 0
    /\ statistics = <<>>
    /\ polls = [r \in Runners |-> "idle"]
    /\ lock_owner = "none"
    /\ cooldown_timer = FALSE
    /\ execute_at_end = FALSE
    /\ armed = 1
    /\ unsub_refresh = "live"
    /\ next_update = Some(UPDATE_HOUR)
    /\ armed_at = 0
    /\ local_now = 0
    /\ since_fire = "none"
    /\ last_update_success = TRUE
    /\ data = [interval |-> "i1", hourly |-> "h1"]
    /\ processed_data = [r \in Runners |-> "none"]
    /\ update_tasks = 0
    /\ imported = "none"
    /\ ep_requests = 0
    /\ ep_interval = 0
    /\ ep_hourly = 0
    /\ call = NoCall
    /\ http_log = <<>>
    /\ login = NoLogin
    /\ hourly_data = [solar |-> <<>>, export |-> <<>>]
    /\ hourly_processed = None
    /\ config_entry = [kind |-> "flat", blob |-> NoData, issued_at |-> 0]
    /\ setup = "unloaded"
    /\ last_refresh = "none"
    /\ contact_info = [kind |-> "absent", accounts |-> <<>>]
    /\ account_id = None
    /\ period_froms = <<>>
    /\ default_time_zone = 0
    /\ stamped = None
    /\ setup_pc = "not loaded"
    /\ coordinators = 0
    /\ coordinator = 0
    /\ timers = [g \in Coordinators |-> NoTimer]
    /\ scheduled_poll = [g \in Coordinators |-> FALSE]
    /\ first_refresh_ok = [g \in Coordinators |-> FALSE]
    /\ unloaded = [g \in Coordinators |-> FALSE]
    /\ hass_data = 0
    /\ services = 0
    /\ call_pc = [r \in Runners |-> "idle"]
    /\ call_stage = [r \in Runners |-> "interval"]
    /\ execute_lock = "none"
    /\ held_refresh_token = 0
    /\ access_stale = TRUE
    /\ sent_refresh_token = [r \in Runners |-> 0]
    /\ server_refresh_token = 0
    /\ refresh_rejected = FALSE
    /\ requests_dropped = FALSE
    /\ last_refresher = "none"

SpecReduce == ReduceInit /\ [][ReduceNext]_vars

-----------------------------------------------------------------------------
(* Claims about the token store *)

\* An hourly answer with a solar and an export array; _process_hourly_data
\* has not run.  The other parts are at rest.
HourlyInit ==
    /\ \E a \in HourlyArrays, b \in HourlyArrays :
          hourly_data = [solar |-> a, export |-> b]
    /\ hourly_processed = None
    /\ interval_data = [p \in Periods |-> None]
    /\ processed = None
    /\ clock = 0
    /\ access_token = None
    /\ id_token = None
    /\ refresh_token = None
    /\ token_expires_at = None
    /\ token_data = NoData
    /\ result = [op |-> "init", outcome |-> "ok", at |-> 0, status |-> 0]
    /\ expires_origin = 0
    /\ upstream = [h \in Hours |-> None]
    /\ window = <<0, 0>>
    /\ hourly = <<>>
    /\ import_tasks = 0
    /\ store = [h \in Hours |-> None]
    /\ last_sum = 0
    /\ statistics = <<>>
    /\ polls = [r \in Runners |-> "idle"]
    /\ lock_owner = "none"
    /\ cooldown_timer = FALSE
    /\ execute_at_end = FALSE
    /\ armed = 1
    /\ unsub_refresh = "live"
    /\ next_update = Some(UPDATE_HOUR)
    /\ armed_at = 0
    /\ local_now = 0
    /\ since_fire = "none"
    /\ last_update_success = TRUE
    /\ data = [interval |-> "i1", hourly |-> "h1"]
    /\ processed_data = [r \in Runners |-> "none"]
    /\ update_tasks = 0
    /\ imported = "none"
    /\ ep_requests = 0
    /\ ep_interval = 0
    /\ ep_hourly = 0
    /\ call = NoCall
    /\ http_log = <<>>
    /\ login = NoLogin
    /\ config_entry = [kind |-> "flat", blob |-> NoData, issued_at |-> 0]
    /\ setup = "unloaded"
    /\ last_refresh = "none"
    /\ contact_info = [kind |-> "absent", accounts |-> <<>>]
    /\ account_id = None
    /\ period_froms = <<>>
    /\ default_time_zone = 0
    /\ stamped = None
    /\ setup_pc = "not loaded"
    /\ coordinators = 0
    /\ coordinator = 0
    /\ timers = [g \in Coordinators |-> NoTimer]
    /\ scheduled_poll = [g \in Coordinators |-> FALSE]
    /\ first_refresh_ok = [g \in Coordinators |-> FALSE]
    /\ unloaded = [g \in Coordinators |-> FALSE]
    /\ hass_data = 0
    /\ services = 0
    /\ call_pc = [r \in Runners |-> "idle"]
    /\ call_stage = [r \in Runners |-> "interval"]
    /\ execute_lock = "none"
    /\ held_refresh_token = 0
    /\ access_stale = TRUE
    /\ sent_refresh_token = [r \in Runners |-> 0]
    /\ server_refresh_token = 0
    /\ refresh_rejected = FALSE
    /\ requests_dropped = FALSE
    /\ last_refresher = "none"

SpecHourly == HourlyInit /\ [][HourlyNext]_vars

\* A config entry as the config flow left it; the integration is not set
\* up and no client exists.  The other parts are at rest.
EntryInit ==
    /\ config_entry \in EntryData
    /\ setup = "unloaded"
    /\ last_refresh = "none"
    /\ hourly_data = [solar |-> <<>>, export |-> <<>>]
    /\ hourly_processed = None
    /\ interval_data = [p \in Periods |-> None]
    /\ processed = None
    /\ clock = 0
    /\ access_token = None
    /\ id_token = None
    /\ refresh_token = None
    /\ token_expires_at = None
    /\ token_data = NoData
    /\ result = [op |-> "init", outcome |-> "ok", at |-> 0, status |-> 0]
    /\ expires_origin = 0
    /\ upstream = [h \in Hours |-> None]
    /\ window = <<0, 0>>
    /\ hourly = <<>>
    /\ import_tasks = 0
    /\ store = [h \in Hours |-> None]
    /\ last_sum = 0
    /\ statistics = <<>>
    /\ polls = [r \in Runners |-> "idle"]
    /\ lock_owner = "none"
    /\ cooldown_timer = FALSE
    /\ execute_at_end = FALSE
    /\ armed = 1
    /\ unsub_refresh = "live"
    /\ next_update = Some(UPDATE_HOUR)
    /\ armed_at = 0
    /\ local_now = 0
    /\ since_fire = "none"
    /\ last_update_success = TRUE
    /\ data = [interval |-> "i1", hourly |-> "h1"]
    /\ processed_data = [r \in Runners |-> "none"]
    /\ update_tasks = 0
    /\ imported = "none"
    /\ ep_requests = 0
    /\ ep_interval = 0
    /\ ep_hourly = 0
    /\ call = NoCall
    /\ http_log = <<>>
    /\ login = NoLogin
    /\ contact_info = [kind |-> "absent", accounts |-> <<>>]
    /\ account_id = None
    /\ period_froms = <<>>
    /\ default_time_zone = 0
    /\ stamped = None
    /\ setup_pc = "not loaded"
    /\ coordinators = 0
    /\ coordinator = 0
    /\ timers = [g \in Coordinators |-> NoTimer]
    /\ scheduled_poll = [g \in Coordinators |-> FALSE]
    /\ first_refresh_ok = [g \in Coordinators |-> FALSE]
    /\ unloaded = [g \in Coordinators |-> FALSE]
    /\ hass_data = 0
    /\ services = 0
    /\ call_pc = [r \in Runners |-> "idle"]
    /\ call_stage = [r \in Runners |-> "interval"]
    /\ execute_lock = "none"
    /\ held_refresh_token = 0
    /\ access_stale = TRUE
    /\ sent_refresh_token = [r \in Runners |-> 0]
    /\ server_refresh_token = 0
    /\ refresh_rejected = FALSE
    /\ requests_dropped = FALSE
    /\ last_refresher = "none"

SpecEntry == EntryInit /\ [][EntryNext]_vars

\* A contact info answer; get_account_id has not run.  The other parts are
\* at rest.
AccountInit ==
    /\ contact_info \in ContactInfos
    /\ account_id = None
    /\ config_entry = [kind |-> "flat", blob |-> NoData, issued_at |-> 0]
    /\ setup = "unloaded"
    /\ last_refresh = "none"
    /\ hourly_data = [solar |-> <<>>, export |-> <<>>]
    /\ hourly_processed = None
    /\ interval_data = [p \in Periods |-> None]
    /\ processed = None
    /\ clock = 0
    /\ access_token = None
    /\ id_token = None
    /\ refresh_token = None
    /\ token_expires_at = None
    /\ token_data = NoData
    /\ result = [op |-> "init", outcome |-> "ok", at |-> 0, status |-> 0]
    /\ expires_origin = 0
    /\ upstream = [h \in Hours |-> None]
    /\ window = <<0, 0>>
    /\ hourly = <<>>
    /\ import_tasks = 0
    /\ store = [h \in Hours |-> None]
    /\ last_sum = 0
    /\ statistics = <<>>
    /\ polls = [r \in Runners |-> "idle"]
    /\ lock_owner = "none"
    /\ cooldown_timer = FALSE
    /\ execute_at_end = FALSE
    /\ armed = 1
    /\ unsub_refresh = "live"
    /\ next_update = Some(UPDATE_HOUR)
    /\ armed_at = 0
    /\ local_now = 0
    /\ since_fire = "none"
    /\ last_update_success = TRUE
    /\ data = [interval |-> "i1", hourly |-> "h1"]
    /\ processed_data = [r \in Runners |-> "none"]
    /\ update_tasks = 0
    /\ imported = "none"
    /\ ep_requests = 0
    /\ ep_interval = 0
    /\ ep_hourly = 0
    /\ call = NoCall
    /\ http_log = <<>>
    /\ login = NoLogin
    /\ period_froms = <<>>
    /\ default_time_zone = 0
    /\ stamped = None
    /\ setup_pc = "not loaded"
    /\ coordinators = 0
    /\ coordinator = 0
    /\ timers = [g \in Coordinators |-> NoTimer]
    /\ scheduled_poll = [g \in Coordinators |-> FALSE]
    /\ first_refresh_ok = [g \in Coordinators |-> FALSE]
    /\ unloaded = [g \in Coordinators |-> FALSE]
    /\ hass_data = 0
    /\ services = 0
    /\ call_pc = [r \in Runners |-> "idle"]
    /\ call_stage = [r \in Runners |-> "interval"]
    /\ execute_lock = "none"
    /\ held_refresh_token = 0
    /\ access_stale = TRUE
    /\ sent_refresh_token = [r \in Runners |-> 0]
    /\ server_refresh_token = 0
    /\ refresh_rejected = FALSE
    /\ requests_dropped = FALSE
    /\ last_refresher = "none"

SpecAccount == AccountInit /\ [][AccountNext]_vars

\* The entries of an import and the configured zone; the import has not
\* run.  The other parts are at rest.
StampInit ==
    /\ period_froms \in PeriodFromBatches
    /\ default_time_zone \in TimeZones
    /\ stamped = None
    /\ contact_info = [kind |-> "absent", accounts |-> <<>>]
    /\ account_id = None
    /\ config_entry = [kind |-> "flat", blob |-> NoData, issued_at |-> 0]
    /\ setup = "unloaded"
    /\ last_refresh = "none"
    /\ hourly_data = [solar |-> <<>>, export |-> <<>>]
    /\ hourly_processed = None
    /\ interval_data = [p \in Periods |-> None]
    /\ processed = None
    /\ clock = 0
    /\ access_token = None
    /\ id_token = None
    /\ refresh_token = None
    /\ token_expires_at = None
    /\ token_data = NoData
    /\ result = [op |-> "init", outcome |-> "ok", at |-> 0, status |-> 0]
    /\ expires_origin = 0
    /\ upstream = [h \in Hours |-> None]
    /\ window = <<0, 0>>
    /\ hourly = <<>>
    /\ import_tasks = 0
    /\ store = [h \in Hours |-> None]
    /\ last_sum = 0
    /\ statistics = <<>>
    /\ polls = [r \in Runners |-> "idle"]
    /\ lock_owner = "none"
    /\ cooldown_timer = FALSE
    /\ execute_at_end = FALSE
    /\ armed = 1
    /\ unsub_refresh = "live"
    /\ next_update = Some(UPDATE_HOUR)
    /\ armed_at = 0
    /\ local_now = 0
    /\ since_fire = "none"
    /\ last_update_success = TRUE
    /\ data = [interval |-> "i1", hourly |-> "h1"]
    /\ processed_data = [r \in Runners |-> "none"]
    /\ update_tasks = 0
    /\ imported = "none"
    /\ ep_requests = 0
    /\ ep_interval = 0
    /\ ep_hourly = 0
    /\ call = NoCall
    /\ http_log = <<>>
    /\ login = NoLogin
    /\ setup_pc = "not loaded"
    /\ coordinators = 0
    /\ coordinator = 0
    /\ timers = [g \in Coordinators |-> NoTimer]
    /\ scheduled_poll = [g \in Coordinators |-> FALSE]
    /\ first_refresh_ok = [g \in Coordinators |-> FALSE]
    /\ unloaded = [g \in Coordinators |-> FALSE]
    /\ hass_data = 0
    /\ services = 0
    /\ call_pc = [r \in Runners |-> "idle"]
    /\ call_stage = [r \in Runners |-> "interval"]
    /\ execute_lock = "none"
    /\ held_refresh_token = 0
    /\ access_stale = TRUE
    /\ sent_refresh_token = [r \in Runners |-> 0]
    /\ server_refresh_token = 0
    /\ refresh_rejected = FALSE
    /\ requests_dropped = FALSE
    /\ last_refresher = "none"

SpecStamp == StampInit /\ [][StampNext]_vars

\* A config entry that has not been set up: no coordinator exists, nothing
\* is stored or registered.  The other parts are at rest.
SetupInit ==
    /\ setup_pc = "not loaded"
    /\ coordinators = 0
    /\ coordinator = 0
    /\ timers = [g \in Coordinators |-> NoTimer]
    /\ scheduled_poll = [g \in Coordinators |-> FALSE]
    /\ first_refresh_ok = [g \in Coordinators |-> FALSE]
    /\ unloaded = [g \in Coordinators |-> FALSE]
    /\ hass_data = 0
    /\ services = 0
    /\ period_froms = <<>>
    /\ default_time_zone = 0
    /\ stamped = None
    /\ contact_info = [kind |-> "absent", accounts |-> <<>>]
    /\ account_id = None
    /\ config_entry = [kind |-> "flat", blob |-> NoData, issued_at |-> 0]
    /\ setup = "unloaded"
    /\ last_refresh = "none"
    /\ hourly_data = [solar |-> <<>>, export |-> <<>>]
    /\ hourly_processed = None
    /\ interval_data = [p \in Periods |-> None]
    /\ processed = None
    /\ clock = 0
    /\ access_token = None
    /\ id_token = None
    /\ refresh_token = None
    /\ token_expires_at = None
    /\ token_data = NoData
    /\ result = [op |-> "init", outcome |-> "ok", at |-> 0, status |-> 0]
    /\ expires_origin = 0
    /\ upstream = [h \in Hours |-> None]
    /\ window = <<0, 0>>
    /\ hourly = <<>>
    /\ import_tasks = 0
    /\ store = [h \in Hours |-> None]
    /\ last_sum = 0
    /\ statistics = <<>>
    /\ polls = [r \in Runners |-> "idle"]
    /\ lock_owner = "none"
    /\ cooldown_timer = FALSE
    /\ execute_at_end = FALSE
    /\ armed = 1
    /\ unsub_refresh = "live"
    /\ next_update = Some(UPDATE_HOUR)
    /\ armed_at = 0
    /\ local_now = 0
    /\ since_fire = "none"
    /\ last_update_success = TRUE
    /\ data = [interval |-> "i1", hourly |-> "h1"]
    /\ processed_data = [r \in Runners |-> "none"]
    /\ update_tasks = 0
    /\ imported = "none"
    /\ ep_requests = 0
    /\ ep_interval = 0
    /\ ep_hourly = 0
    /\ call = NoCall
    /\ http_log = <<>>
    /\ login = NoLogin
    /\ call_pc = [r \in Runners |-> "idle"]
    /\ call_stage = [r \in Runners |-> "interval"]
    /\ execute_lock = "none"
    /\ held_refresh_token = 0
    /\ access_stale = TRUE
    /\ sent_refresh_token = [r \in Runners |-> 0]
    /\ server_refresh_token = 0
    /\ refresh_rejected = FALSE
    /\ requests_dropped = FALSE
    /\ last_refresher = "none"

SpecSetup == SetupInit /\ [][SetupNext]_vars

\* A client loaded with tokens whose access token has expired, no caller
\* at work.  The other parts are at rest.
RefreshInit ==
    /\ call_pc = [r \in Runners |-> "idle"]
    /\ call_stage = [r \in Runners |-> "interval"]
    /\ execute_lock = "none"
    /\ held_refresh_token = 0
    /\ access_stale = TRUE
    /\ sent_refresh_token = [r \in Runners |-> 0]
    /\ server_refresh_token = 0
    /\ refresh_rejected = FALSE
    /\ requests_dropped = FALSE
    /\ last_refresher = "none"
    /\ setup_pc = "not loaded"
    /\ coordinators = 0
    /\ coordinator = 0
    /\ timers = [g \in Coordinators |-> NoTimer]
    /\ scheduled_poll = [g \in Coordinators |-> FALSE]
    /\ first_refresh_ok = [g \in Coordinators |-> FALSE]
    /\ unloaded = [g \in Coordinators |-> FALSE]
    /\ hass_data = 0
    /\ services = 0
    /\ period_froms = <<>>
    /\ default_time_zone = 0
    /\ stamped = None
    /\ contact_info = [kind |-> "absent", accounts |-> <<>>]
    /\ account_id = None
    /\ config_entry = [kind |-> "flat", blob |-> NoData, issued_at |-> 0]
    /\ setup = "unloaded"
    /\ last_refresh = "none"
    /\ hourly_data = [solar |-> <<>>, export |-> <<>>]
    /\ hourly_processed = None
    /\ interval_data = [p \in Periods |-> None]
    /\ processed = None
    /\ clock = 0
    /\ access_token = None
    /\ id_token = None
    /\ refresh_token = None
    /\ token_expires_at = None
    /\ token_data = NoData
    /\ result = [op |-> "init", outcome |-> "ok", at |-> 0, status |-> 0]
    /\ expires_origin = 0
    /\ upstream = [h \in Hours |-> None]
    /\ window = <<0, 0>>
    /\ hourly = <<>>
    /\ import_tasks = 0
    /\ store = [h \in Hours |-> None]
    /\ last_sum = 0
    /\ statistics = <<>>
    /\ polls = [r \in Runners |-> "idle"]
    /\ lock_owner = "none"
    /\ cooldown_timer = FALSE
    /\ execute_at_end = FALSE
    /\ armed = 1
    /\ unsub_refresh = "live"
    /\ next_update = Some(UPDATE_HOUR)
    /\ armed_at = 0
    /\ local_now = 0
    /\ since_fire = "none"
    /\ last_update_success = TRUE
    /\ data = [interval |-> "i1", hourly |-> "h1"]
    /\ processed_data = [r \in Runners |-> "none"]
    /\ update_tasks = 0
    /\ imported = "none"
    /\ ep_requests = 0
    /\ ep_interval = 0
    /\ ep_hourly = 0
    /\ call = NoCall
    /\ http_log = <<>>
    /\ login = NoLogin

SpecRefresh == RefreshInit /\ [][RefreshNext]_vars

\* The calls that end in set_tokens.
SetOps == {"set_tokens", "exchange", "refresh"}

\* The last call stored a credential set that carried expires_in = e.
StoredWithExpiresIn(e) ==
    /\ result.op \in SetOps
    /\ result.outcome = "ok"
    /\ token_data.expires_in = Some(e)

\* C6 as stated: for every expires_in present in the credential set,
\* token_expired is false immediately after set_tokens and is true exactly
\* from the instant (time of set_tokens + expires_in) - 5 minutes on.
C6_AnyExpiresIn ==
    \A e \in ExpiresInValues :
        StoredWithExpiresIn(e) =>
            /\ (clock = result.at => ~token_expired)
            /\ (token_expired <=> clock >= result.at + e - EXPIRY_BUFFER)

\* C6 amended: for every expires_in greater than the 5-minute buffer,
\* token_expired is false immediately after set_tokens and is true exactly
\* from the instant (time of set_tokens + expires_in) - 5 minutes on.
C6_ExpiresInAboveBuffer ==
    \A e \in ExpiresInValues :
        (StoredWithExpiresIn(e) /\ e > EXPIRY_BUFFER) =>
            /\ (clock = result.at => ~token_expired)
            /\ (token_expired <=> clock >= result.at + e - EXPIRY_BUFFER)

\* C6 witness: a credential set with expires_in above the buffer was stored
\* and the clock has just reached expires_at - 5 minutes.
C6_Witness ==
    \E e \in ExpiresInValues :
        /\ StoredWithExpiresIn(e)
        /\ e > EXPIRY_BUFFER
        /\ clock > result.at
        /\ clock = result.at + e - EXPIRY_BUFFER
        /\ token_expired

\* C7: token_expired is true exactly when no expiry is stored or the clock
\* is at or past the stored expiry minus 5 minutes, and is_authenticated is
\* true exactly when an access token is stored and token_expired is false.
C7_ExpiredAndAuthenticated ==
    /\ token_expired <=>
         (\/ token_expires_at = None
          \/ \E t \in token_expires_at : clock + EXPIRY_BUFFER >= t)
    /\ is_authenticated <=>
         (/\ access_token # None
          /\ \E t \in token_expires_at : clock + EXPIRY_BUFFER < t)

\* C7 witness: an access token and an expiry are stored and the clock stands
\* exactly at the expiry minus 5 minutes, so the client is not authenticated.
C7_Witness ==
    /\ access_token # None
    /\ token_expires_at # None
    /\ clock = Val(token_expires_at) - EXPIRY_BUFFER
    /\ ~is_authenticated

\* C8 as stated: after every step the access token, id token and expiry
\* come from the same credential set, and an exchange or refresh that ends
\* in an error leaves the four fields as they were.
C8_NeverPartiallyUpdated ==
    [][ /\ (access_token' # None =>
               /\ id_token' = access_token'
               /\ expires_origin' = Val(access_token'))
        /\ ((result'.op \in {"exchange", "refresh"} /\ result'.outcome # "ok") =>
               UNCHANGED <<access_token, id_token, refresh_token, token_expires_at>>)
      ]_vars

\* The part of C8 the code keeps: an exchange or refresh that fails before
\* set_tokens is reached (HTTP error status, transport error, body lacking
\* access_token or id_token) leaves the four fields as they were.
C8_FailureBeforeSetTokens ==
    [][ (/\ result'.op \in {"exchange", "refresh"}
         /\ result'.outcome # "ok"
         /\ ~(token_data'.has_access /\ token_data'.has_id)) =>
            UNCHANGED <<access_token, id_token, refresh_token, token_expires_at>>
      ]_vars

C9_RefreshGrantPreserves ==
    [][ (/\ result'.op = "refresh"
         /\ result'.outcome = "ok"
         /\ token_data'.refresh = None) =>
            /\ refresh_token' = refresh_token
            /\ access_token' = Some(token_data'.n)
            /\ id_token' = Some(token_data'.n)
            /\ expires_origin' = token_data'.n
      ]_vars

\* C10 as stated: the stored expiry is now + expires_in when expires_in is
\* given, else the access token's exp claim when it has one, else exactly
\* now + 1 hour.
C10_ExpiryPrecedence ==
    (result.op \in SetOps /\ result.outcome = "ok") =>
        LET e == token_data.expires_in
            n == token_data.n
        IN  IF e # None
            THEN token_expires_at = Some(result.at + Val(e))
            ELSE IF IsJwt(n) /\ JwtExp(n) # None
                 THEN token_expires_at = JwtExp(n)
                 ELSE token_expires_at = Some(result.at + DEFAULT_EXPIRY)

\* The part of C10 the code keeps: the same precedence with "expires_in is
\* given" read as "expires_in is given and not 0".
C10_NonZeroExpiresIn ==
    (result.op \in SetOps /\ result.outcome = "ok") =>
        LET e == token_data.expires_in
            n == token_data.n
        IN  IF e # None /\ Val(e) # 0
            THEN token_expires_at = Some(result.at + Val(e))
            ELSE IF IsJwt(n) /\ JwtExp(n) # None
                 THEN token_expires_at = JwtExp(n)
                 ELSE token_expires_at = Some(result.at + DEFAULT_EXPIRY)

-----------------------------------------------------------------------------
(* Claims about the statistics merger *)

\* The stored hours.
Stored == { h \in Hours : store[h] # None }

\* C1 as stated: the upstream entries never change, so an import that
\* writes an hour an earlier import has written writes the same sum again:
\* no step changes the sum stored for an hour.
C1_ReimportKeepsSums ==
    [][ \A h \in Hours :
            (store[h] # None /\ store'[h] # None) =>
                Val(store'[h]).sum = Val(store[h]).sum
      ]_vars

\* The part of C1 the code keeps: the same whenever the lookback of the
\* import finds a statistic or the store holds none before the first entry.
C1_ReimportWithoutGap ==
    [][ (/\ import_tasks' < import_tasks
         /\ hourly # <<>>
         /\ LET first == hourly'[1].period_from
            IN  \/ statistics_during_period(first - LOOKBACK_HOURS, first) # <<>>
                \/ \A h \in Stored : h >= first) =>
            \A h \in Hours :
                (store[h] # None /\ store'[h] # None) =>
                    Val(store'[h]).sum = Val(store[h]).sum
      ]_vars

\* C2 as stated: with all consumptions >= 0 the stored sums of the series
\* are non-decreasing in timestamp order, also after polls that leave no
\* statistic in the 24 hours before a batch's first timestamp.
C2_SumsNonDecreasing ==
    \A h1 \in Stored, h2 \in Stored :
        h1 <= h2 => Val(store[h1]).sum <= Val(store[h2]).sum

RECURSIVE SumConsumption(_)
\* The sum of the consumptions of a sequence of entries.
SumConsumption(entries) ==
    IF entries = <<>> THEN 0
    ELSE Val(entries[Len(entries)].consumption)
         + SumConsumption(SubSeq(entries, 1, Len(entries) - 1))

\* The import step of a batch whose entries all carry a number.
ImportsNumericBatch ==
    /\ import_tasks' < import_tasks
    /\ hourly # <<>>
    /\ \A i \in 1..Len(hourly) : hourly[i].consumption # None

\* C3: an import of a batch of entries with numeric consumptions emits one
\* triple per entry in ascending period_from order; the i-th triple carries
\* the i-th entry's timestamp and consumption and the sum last_sum plus the
\* consumptions of the entries up to i, where last_sum is the sum of the
\* latest statistic stored in the 24 hours before the first entry, or 0 if
\* there is none; the triples are what the store then holds.
C3_CumulativeTriples ==
    [][ ImportsNumericBatch =>
          LET batch == hourly'
              first == batch[1].period_from
              prior == { h \in Stored : first - LOOKBACK_HOURS <= h /\ h < first }
          IN  /\ \A i \in 1..(Len(batch) - 1) :
                     batch[i].period_from < batch[i + 1].period_from
              /\ { batch[i] : i \in 1..Len(batch) } = { hourly[i] : i \in 1..Len(hourly) }
              /\ last_sum' = IF prior = {} THEN 0
                             ELSE Val(store[CHOOSE h \in prior : \A g \in prior : g <= h]).sum
              /\ Len(statistics') = Len(batch)
              /\ \A i \in 1..Len(batch) :
                     /\ statistics'[i].start = batch[i].period_from
                     /\ statistics'[i].state = Val(batch[i].consumption)
                     /\ statistics'[i].sum = last_sum' + SumConsumption(SubSeq(batch, 1, i))
                     /\ store'[batch[i].period_from] =
                            Some([state |-> statistics'[i].state, sum |-> statistics'[i].sum])
      ]_vars

\* C3 witness: an import seeded with a sum above 0 has emitted two triples,
\* the second for a consumption above 0.
C3_Witness ==
    /\ import_tasks = 0
    /\ Len(hourly) = 2
    /\ Len(statistics) = 2
    /\ statistics[1].start = hourly[1].period_from
    /\ last_sum > 0
    /\ statistics[2].state > 0
    /\ statistics[2].sum = last_sum + statistics[1].state + statistics[2].state


-----------------------------------------------------------------------------
(* Further claims about the token store, checked under SpecToken *)

\* C11 as stated: a refresh request answered with HTTP 403 raises
\* AuthenticationError, and one answered with any other status outside
\* 200..299 raises CommunicationError.
C11_RefreshStatusClasses ==
    (result.op = "refresh" /\ result.status # 0) =>
        /\ result.status = 403 => result.outcome = "AuthenticationError"
        /\ (result.status # 403 /\ result.status \notin 200..299)
               => result.outcome = "CommunicationError"

\* C11 for the statuses raise_for_status rejects: 403 raises
\* AuthenticationError, every other status of 400 or above raises
\* CommunicationError.
C11_ErrorStatuses ==
    (result.op = "refresh" /\ raise_for_status(result.status)) =>
        IF result.status = 403
        THEN result.outcome = "AuthenticationError"
        ELSE result.outcome = "CommunicationError"

-----------------------------------------------------------------------------
(* Claims about refresh requests and the poll, checked under SpecPoll *)

C5_OnePollInFlight == Cardinality(InFlight) <= 1

\* A refresh request has arrived while a poll was awaiting its hourly data.
C5_Witness ==
    /\ ep_requests >= 2
    /\ \E r \in Runners : polls[r] = "hourly"


-----------------------------------------------------------------------------
(* Claims about authenticated data calls, checked under SpecClient *)

\* C12: a data operation called while no access token is stored ends at
\* once in AuthenticationError, sends no HTTP request to either endpoint,
\* and leaves the four token fields as they were.
C12_NoTokenNoRequest ==
    [][ \A op \in Operations :
          (StartCall(op) /\ access_token = None) =>
              /\ call'.pc = "idle"
              /\ call'.outcome = "AuthenticationError"
              /\ http_log' = <<>>
              /\ UNCHANGED <<access_token, id_token, refresh_token, token_expires_at>> ]_vars

\* A data operation has been called on a client without an access token.
C12_Witness ==
    /\ access_token = None
    /\ call.op \in Operations
    /\ call.outcome = "AuthenticationError"


\* The running or last data call began with a refresh.
BeganWithRefresh == http_log # <<>> /\ http_log[1].to = "token"

\* C13: a data call that starts with an expired access token and a stored
\* refresh token first sends one refresh request; the data request, if one
\* follows, is the only other request and carries the access token and id
\* token which that refresh returned; if the refresh fails no data request
\* is sent and the call ends in the refresh's error.
C13_RefreshBeforeData ==
    /\ [][ \A op \in Operations :
             (StartCall(op) /\ access_token # None /\ token_expired /\ refresh_token # None)
                 => (call'.pc = "refreshing" /\ Len(http_log') = 1 /\ BeganWithRefresh') ]_vars
    /\ [](BeganWithRefresh =>
            /\ Len(http_log) <= 2
            /\ call.pc = "refreshing" <=> (Len(http_log) = 1 /\ call.outcome = "pending")
            /\ Len(http_log) = 2 =>
                 /\ result.op = "refresh" /\ result.outcome = "ok"
                 /\ http_log[2] = [to |-> "data", access |-> Some(token_data.n),
                                   id |-> Some(token_data.n)]
            /\ (call.pc = "idle" /\ result.op = "refresh" /\ result.outcome # "ok") =>
                 /\ Len(http_log) = 1
                 /\ call.outcome = result.outcome)

\* A data call has refreshed, sent its data request and returned data.
C13_Witness ==
    /\ BeganWithRefresh
    /\ Len(http_log) = 2
    /\ call.pc = "idle"
    /\ call.outcome = "ok"


\* C14, the part every reading of it includes: a data call made with an
\* expired access token and no refresh token never returns a result.
C14_StaleNeverSucceeds ==
    (call.stale /\ call.pc = "idle") => call.outcome # "ok"

\* What holds of such a call: it sends no refresh request, its data request
\* carries the stored tokens, and it ends as the endpoint's answer decides.
C14_StaleAsAnswered ==
    (call.stale /\ call.pc = "idle" /\ http_log # <<>>) =>
        /\ http_log = <<[to |-> "data", access |-> access_token, id |-> id_token]>>
        /\ call.outcome = data_outcome(call.op, call.resp)


\* The last data call ended on an answer with a successful status.
AnsweredOk == call.pc = "idle" /\ call.resp.status \in 200..299

\* C15 as stated: for each of the three operations, an answer with a
\* successful status whose content type is not JSON ends the call in
\* AuthenticationError.
C15_NonJsonIsAuthenticationError ==
    (AnsweredOk /\ call.resp.ctype \in ContentTypes \ {"json"}) =>
        call.outcome = "AuthenticationError"

\* C15 for a content type that does not contain 'application/json': the
\* call ends in AuthenticationError.
C15_HtmlIsAuthenticationError ==
    (AnsweredOk /\ call.resp.ctype = "html") => call.outcome = "AuthenticationError"


\* The last call was get_interval_data or get_hourly_data and ended on a
\* JSON answer with a successful status.
UsageJsonAnswered ==
    /\ AnsweredOk
    /\ call.op \in {"get_interval_data", "get_hourly_data"}
    /\ call.resp.ctype = "json"

LacksField ==
    /\ AnsweredOk
    /\ call.resp.ctype = "json"
    /\ call.resp.errors = None
    /\ call.resp.data \in {"null", "empty"}

\* C17 as stated: for every data operation, a JSON answer whose data
\* envelope is null or lacks the operation's field ends the call in
\* ApiError, and in no other exception.
C17_MissingFieldIsApiError == LacksField => call.outcome = "ApiError"

\* C17 for get_contact_info and an envelope that is an object: the call
\* ends in ApiError.
C17_ContactInfoLacksField ==
    (LacksField /\ call.op = "get_contact_info" /\ call.resp.data = "empty")
        => call.outcome = "ApiError"

\* The stored id token does not decode or carries no email claim.
BadIdToken == id_token = None \/ ~IsJwt(Val(id_token)) \/ ~HasEmail(Val(id_token))

\* C18 as stated: when the stored id token cannot be decoded or carries no
\* email claim, get_contact_info ends in AuthenticationError.
C18_BadIdTokenIsAuthenticationError ==
    [][ (StartCall("get_contact_info") /\ ensure_authenticated = "proceed" /\ BadIdToken)
            => call'.outcome = "AuthenticationError" ]_vars

\* What holds: get_contact_info then ends in the generic ApiError without
\* sending a request.
C18_BadIdTokenIsApiError ==
    [][ (StartCall("get_contact_info") /\ ensure_authenticated = "proceed" /\ BadIdToken)
            => (call'.outcome = "ApiError" /\ call'.pc = "idle" /\ http_log' = <<>>) ]_vars


-----------------------------------------------------------------------------
(* Claims about the password login, checked under SpecClient *)

\* C19 as stated: a transport-level failure in any HTTP step of the
\* password login - authorize GET, login POST, form submission, token
\* exchange - ends the login in CommunicationError.
C19_TransportIsCommunicationError ==
    (login.pc = "idle" /\ login.failed # "none") => login.outcome = "CommunicationError"

\* C19 for the token exchange: a transport-level failure of that step ends
\* the login in CommunicationError.
C19_ExchangeTransport ==
    (login.pc = "idle" /\ login.failed = "exchange") => login.outcome = "CommunicationError"

-----------------------------------------------------------------------------
(* C20 *)

\* The array without its i-th entry.
Without(a, i) == [j \in 1..(Len(a) - 1) |-> IF j < i THEN a[j] ELSE a[j + 1]]

\* The arrays that differ from a in the entries before the last one only:
\* one earlier entry changed, one earlier entry removed, all of them removed.
SameLast(a) ==
    IF a = <<>> THEN {a}
    ELSE {a, <<a[Len(a)]>>}
         \cup { [a EXCEPT ![i] = e] : i \in 1..(Len(a) - 1), e \in IntervalEntries }
         \cup { Without(a, i) : i \in 1..(Len(a) - 1) }

\* C20: for every period, the snapshot _process_data builds is a function of
\* the last entry of the solar array and the last entry of the export array:
\* solar_consumption and solar_charge are the last solar entry's consumption
\* and charge value (0 when missing), the export fields are computed from the
\* last export entry (CREDIT goes to return_to_grid, every other type to
\* grid_consumption), the call raises exactly when one of the two last
\* entries has a null charge, and changing or removing any earlier entry
\* gives the same outcome.
C20_LastElementOnly ==
    processed # None =>
        \A p \in Periods :
            interval_data[p] # None =>
                LET pd   == Val(interval_data[p])
                    out  == Val(processed)
                    snap == out.periods[p]
                    ls   == pd.solar[Len(pd.solar)]
                    le   == pd.export[Len(pd.export)]
                IN  /\ out.raised <=>
                           \/ pd.solar # <<>> /\ ls.charge.kind = "null"
                           \/ pd.export # <<>> /\ le.charge.kind = "null"
                    /\ (~out.raised /\ pd.solar # <<>>) =>
                           /\ snap.solar_consumption = Some(get(ls.consumption, 0))
                           /\ snap.solar_charge = Some(get(ls.charge.value, 0))
                           /\ snap.solar_latest = Some(ls)
                    /\ (~out.raised /\ pd.export # <<>>) =>
                           /\ snap.grid_latest = Some(le)
                           /\ IF le.charge.type = Some("CREDIT")
                              THEN /\ snap.return_to_grid = Some(get(le.consumption, 0))
                                   /\ snap.return_to_grid_charge = Some(get(le.charge.value, 0))
                                   /\ snap.grid_consumption = Some(0)
                                   /\ snap.grid_charge = Some(0)
                              ELSE /\ snap.grid_consumption = Some(get(le.consumption, 0))
                                   /\ snap.grid_charge = Some(get(le.charge.value, 0))
                                   /\ snap.return_to_grid = Some(0)
                                   /\ snap.return_to_grid_charge = Some(0)
                    /\ \A a \in SameLast(pd.solar) :
                           process_data([interval_data EXCEPT
                                            ![p] = Some([pd EXCEPT !.solar = a])]) = out
                    /\ \A b \in SameLast(pd.export) :
                           process_data([interval_data EXCEPT
                                            ![p] = Some([pd EXCEPT !.export = b])]) = out

\* _process_data has returned a snapshot for a period whose solar and export
\* arrays both hold an earlier entry that differs from the last one, the last
\* export entry being a CREDIT.
C20_Witness ==
    /\ processed # None
    /\ ~Val(processed).raised
    /\ \E p \in Periods :
          /\ interval_data[p] # None
          /\ LET pd == Val(interval_data[p])
             IN  /\ Len(pd.solar) >= 2
                 /\ Len(pd.export) >= 2
                 /\ pd.solar[1] # pd.solar[Len(pd.solar)]
                 /\ pd.export[1] # pd.export[Len(pd.export)]
                 /\ pd.export[Len(pd.export)].charge.type = Some("CREDIT")
                 /\ Val(processed).periods[p].return_to_grid = Some(2)

-----------------------------------------------------------------------------
(* C21 *)

\* C21: in every snapshot _process_data builds from a non-empty export array,
\* one side of the export split is filled and the other is zero: a last
\* export entry of type CREDIT puts its consumption and charge value into
\* return_to_grid and return_to_grid_charge and leaves grid_consumption and
\* grid_charge at 0; a last entry of any other type, or without a type or a
\* charge, puts them into grid_consumption and grid_charge and leaves
\* return_to_grid and return_to_grid_charge at 0.
C21_ExactlyOneSide ==
    (processed # None /\ ~Val(processed).raised) =>
        \A p \in Periods :
            (interval_data[p] # None /\ Val(interval_data[p]).export # <<>>) =>
                LET export == Val(interval_data[p]).export
                    last   == export[Len(export)]
                    snap   == Val(processed).periods[p]
                    cons   == IF last.consumption = None THEN 0 ELSE Val(last.consumption)
                    value  == IF last.charge.value = None THEN 0 ELSE Val(last.charge.value)
                    credit == <<snap.return_to_grid, snap.return_to_grid_charge>>
                    debit  == <<snap.grid_consumption, snap.grid_charge>>
                IN  IF last.charge.type = Some("CREDIT")
                    THEN credit = <<Some(cons), Some(value)>> /\ debit = <<Some(0), Some(0)>>
                    ELSE debit = <<Some(cons), Some(value)>> /\ credit = <<Some(0), Some(0)>>

\* A snapshot has been built from a last export entry of type CREDIT with a
\* non-zero consumption and charge.
C21_Witness ==
    /\ processed # None
    /\ ~Val(processed).raised
    /\ \E p \in Periods :
          /\ interval_data[p] # None
          /\ Val(interval_data[p]).export # <<>>
          /\ LET export == Val(interval_data[p]).export
             IN  /\ export[Len(export)].charge.type = Some("CREDIT")
                 /\ export[Len(export)].consumption = Some(2)
                 /\ Val(processed).periods[p].return_to_grid_charge = Some(3)

-----------------------------------------------------------------------------
(* C22 *)

IsCredit(entry) == entry.charge.type = Some("CREDIT")

IsGridDraw(entry) == ~IsCredit(entry)

\* The sum of the consumption numbers of a sequence of raw entries.
RECURSIVE ConsumptionSum(_)
ConsumptionSum(entries) ==
    IF entries = <<>> THEN 0
    ELSE entries[1].consumption.n + ConsumptionSum(Tail(entries))

\* out holds exactly the raw entries of seq, in their order.
Retained(out, seq) ==
    /\ Len(out) = Len(seq)
    /\ \A i \in 1..Len(seq) :
          /\ out[i].consumption = seq[i].consumption.n
          /\ out[i].charge = (IF seq[i].charge.value = None THEN 0
                              ELSE Val(seq[i].charge.value))

\* What C22 says of a returned result.
HourlyPartition(d, out) ==
    /\ Retained(out.solar_entries, d.solar)
    /\ Retained(out.grid_entries, SelectSeq(d.export, IsGridDraw))
    /\ Retained(out.return_to_grid_entries, SelectSeq(d.export, IsCredit))
    /\ \A i \in 1..Len(out.return_to_grid_entries) :
          out.return_to_grid_entries[i].charge_type = Some("CREDIT")
    /\ \A i \in 1..Len(out.grid_entries) :
          out.grid_entries[i].charge_type # Some("CREDIT")
    /\ out.solar_total = ConsumptionSum(d.solar)
    /\ out.grid_total = ConsumptionSum(SelectSeq(d.export, IsGridDraw))
    /\ out.return_to_grid_total = ConsumptionSum(SelectSeq(d.export, IsCredit))
    /\ out.grid_total + out.return_to_grid_total = ConsumptionSum(d.export)

\* C22: _process_hourly_data keeps every entry: each solar entry is in
\* solar_entries, each export entry is in grid_entries (type other than
\* CREDIT) or in return_to_grid_entries (CREDIT), in the order of the answer,
\* and each total is the sum of the consumption of its own sequence.
C22_RetainsEveryEntry ==
    hourly_processed # None =>
        /\ ~Val(hourly_processed).raised
        /\ HourlyPartition(hourly_data, Val(hourly_processed))

\* What the code does: the call raises when a solar entry has a null charge
\* or any entry has a null consumption, and returns nothing; when it
\* returns, the result is the partition C22 describes.
C22_PartitionWhenReturned ==
    hourly_processed # None =>
        LET out == Val(hourly_processed)
            d   == hourly_data
        IN  /\ out.raised <=>
                   \/ \E i \in 1..Len(d.solar) :
                         d.solar[i].charge.kind = "null" \/ d.solar[i].consumption.kind = "null"
                   \/ \E i \in 1..Len(d.export) : d.export[i].consumption.kind = "null"
            /\ ~out.raised => HourlyPartition(d, out)
            /\ out.raised => out = HourlyRaised

-----------------------------------------------------------------------------
(* C23 *)

\* C23: a coordinator never has more than one 02:00 timer armed, and the
\* target of an armed timer is an occurrence of 02:00 that is later than the
\* moment the timer was armed and at most one day later: today's 02:00 when
\* armed before it, tomorrow's otherwise.
C23_OneTimerNextOccurrence ==
    /\ armed \in {0, 1}
    /\ armed = 1 =>
          /\ unsub_refresh = "live"
          /\ next_update # None
          /\ Val(next_update) % HoursPerDay = UPDATE_HOUR
          /\ armed_at < Val(next_update)
          /\ Val(next_update) <= armed_at + HoursPerDay

\* The timer fired at 02:00 on the first day and the handler has armed it
\* again, at 02:00 sharp or later, for 02:00 of the second day.
C23_Witness ==
    /\ since_fire = "fire"
    /\ armed = 1
    /\ armed_at >= UPDATE_HOUR
    /\ next_update = Some(HoursPerDay + UPDATE_HOUR)
    /\ local_now > armed_at

-----------------------------------------------------------------------------
(* C24 *)

\* Nothing of the refresh machinery is pending: no poll runs and the
\* debouncer's cooldown is over.
AtRest == InFlight = {} /\ ~cooldown_timer

\* C24: a fire of the 02:00 timer requests one run and the timer is armed
\* again afterwards, whatever the run ends in; the scheduler does not stay
\* idle after a fire.  Here: once the timer has fired, a coordinator at rest
\* has its timer armed.
C24_NeverIdleAfterFire ==
    (since_fire # "none" /\ AtRest) => armed = 1

\* What the code does: the handler of a fire starts at most one poll, its
\* own, and arms the timer again when its request returns, at once if no
\* poll was started and at the end of its poll otherwise, whatever the poll
\* ends in.  A refresh that is requested later cancels that timer.
C24_FireRequestsAndRearms ==
    [][ /\ ScheduledFire =>
              /\ \A r \in Runners \ {"scheduled"} : polls'[r] = polls[r]
              /\ IF polls'["scheduled"] = "idle" THEN armed' = 1 ELSE armed' = 0
        /\ (polls["scheduled"] # "idle" /\ polls'["scheduled"] = "idle") =>
              /\ armed' = 1
              /\ Val(next_update') = next_update_at(local_now)
      ]_vars

-----------------------------------------------------------------------------
(* C25 *)

\* C25: a call of the refresh_data service leaves the scheduler as it was:
\* the armed timer, its handle and its target are the same before and after,
\* and no timer is cancelled, armed again or added.
C25_ManualLeavesTimer ==
    [][ handle_refresh_data =>
            /\ armed' = armed
            /\ unsub_refresh' = unsub_refresh
            /\ next_update' = next_update
      ]_vars

\* What the code does: a service call that starts a refresh cancels the
\* armed timer and clears its handle, and no step of that refresh arms one
\* again; a call that the debouncer defers or drops leaves the timer alone
\* until the deferred refresh runs.
C25_ManualCancelsTimer ==
    [][ /\ handle_refresh_data =>
              IF polls'["manual"] # "idle"
              THEN armed' = 0 /\ unsub_refresh' = "none"
              ELSE armed' = armed /\ unsub_refresh' = unsub_refresh
        /\ (polls["manual"] # "idle" \/ polls["cooldown"] # "idle") =>
              (polls["scheduled"] = "idle" => armed' <= armed)
        /\ (polls["cooldown"] = "idle" /\ polls'["cooldown"] # "idle") => armed' = 0
      ]_vars

-----------------------------------------------------------------------------
(* C26 *)

\* The hourly step of caller r's poll fails.
HourlyFailed(r) == \E series \in Series : HourlyFetched(r, "error", series)

\* C26: when the interval fetch of a poll succeeded and its hourly fetch or
\* hourly reduction raises, the poll succeeds and publishes the snapshots it
\* computed with an empty hourly part; an import task that finds the hourly
\* part empty imports nothing; and a later poll sends the hourly request
\* again after its interval fetch.
C26_HourlyFailureNotFatal ==
    [][ /\ \A r \in Runners :
              HourlyFailed(r) =>
                  /\ last_update_success'
                  /\ data' = [interval |-> processed_data[r], hourly |-> "empty"]
        /\ (RunImportTask /\ data.hourly = "empty") => imported' = imported
        /\ \A r \in Runners :
              (polls[r] = "interval" /\ polls'[r] # "interval" /\ polls'[r] # "idle") =>
                  /\ polls'[r] = "hourly"
                  /\ ep_hourly' = ep_hourly + 1
      ]_vars

\* After a poll whose hourly step failed, published without hourly part and
\* imported nothing, the next poll awaits its hourly request; the statistics
\* in the store are those of an earlier poll.
C26_Witness ==
    /\ data.hourly = "empty"
    /\ last_update_success
    /\ imported \in Series
    /\ update_tasks = 0
    /\ \E r \in Runners : polls[r] = "hourly" /\ processed_data[r] # data.interval

-----------------------------------------------------------------------------
(* C27 *)

\* The poll of caller r ends in a failure: polls[r] returns to idle and
\* last_update_success is cleared.
PollFailed(r) == polls[r] # "idle" /\ polls'[r] = "idle" /\ ~last_update_success'

\* C27: a poll that fails at any stage, the hourly fetch included, leaves
\* the published interval snapshots and the published hourly series as the
\* last fully successful poll left them.
C27_FailureLeavesPublished ==
    [][ \A r \in Runners :
            (PollFailed(r) \/ HourlyFailed(r)) => data' = data
      ]_vars

\* What the code does: a poll that fails in authentication, in the interval
\* fetch or in the interval reduction leaves coordinator.data as it was; a
\* poll whose hourly step fails is a successful poll and replaces
\* coordinator.data by its own snapshots with an empty hourly part.
C27_FailureBeforeHourlyLeavesPublished ==
    [][ \A r \in Runners :
            /\ PollFailed(r) => (data' = data /\ polls[r] = "interval")
            /\ HourlyFailed(r) =>
                  data' = [interval |-> processed_data[r], hourly |-> "empty"]
      ]_vars

\* A poll has failed while data with an hourly series was published, and
\* that data is still there.
C27_Witness ==
    /\ ~last_update_success
    /\ InFlight = {}
    /\ data.hourly \in Series
    /\ since_fire # "none"

-----------------------------------------------------------------------------
(* C28 *)

-----------------------------------------------------------------------------
(* Claims about the config entry's tokens *)

\* C29: after any successful token refresh, at setup or inline during a
\* data call, entry.data holds the same access, id and refresh token as the
\* client holds in memory.
C29_PersistedMatchesMemory ==
    (setup = "ready" /\ last_refresh \in {"setup", "inline"})
        => persisted_tokens = memory_tokens

\* C29, the setup path alone: after the refresh of async_setup_entry,
\* entry.data holds the tokens the client holds in memory.
C29_SetupRefreshWrittenBack ==
    (setup = "ready" /\ last_refresh = "setup") => persisted_tokens = memory_tokens

\* C29's setup path happens: a setup refresh has replaced the tokens.
C29_SetupRefreshed ==
    /\ setup = "ready"
    /\ last_refresh = "setup"
    /\ result.op = "refresh"

-----------------------------------------------------------------------------
(* Claims about the primary account *)

\* The positions of the accounts that are not closed.
Eligible == { i \in 1..Len(contact_info.accounts) : contact_info.accounts[i].closed # "true" }

\* The least of a non-empty set of positions.
First(S) == CHOOSE i \in S : \A j \in S : i <= j

\* C30: get_account_id returns the id of the first account, in response
\* order, that is not closed (its closed flag false, null or not there); when
\* every account is closed or there is none, it raises instead of returning
\* an id.
C30_FirstOpenAccount ==
    account_id # None =>
        IF Eligible = {}
        THEN Val(account_id).outcome # "ok"
        ELSE /\ Val(account_id).outcome = "ok"
             /\ Val(account_id).id = str(contact_info.accounts[First(Eligible)].id)

\* C30's case happens: a closed account comes first and the id of the
\* open account after it is returned.
C30_Witness ==
    /\ account_id # None
    /\ Len(contact_info.accounts) = 2
    /\ contact_info.accounts[1].closed = "true"
    /\ contact_info.accounts[1].id = 1
    /\ contact_info.accounts[2].closed = "absent"
    /\ Val(account_id) = [outcome |-> "ok", id |-> "2"]

-----------------------------------------------------------------------------
(* Claims about the order of the password login *)

\* The answers that end the login before its next request.
EarlyFailures == {"not_200", "no_action", "no_hidden", "no_code"}

\* The login has got answer r to the request at position i.
Answered(i, r) == Len(login.answers) >= i /\ login.answers[i] = r

\* C31: the login's requests are guarded in order.  The form is submitted
\* (step "callback") only after the login POST answered 200 with an action
\* and a hidden field; the token endpoint is contacted (step "exchange")
\* only after the form submission ended at a URL with a code; a failure
\* before that ends the login with AuthenticationError, with no later
\* request sent and the client's token fields as they were (unset).
C31_LoginStepsGuarded ==
    /\ \A i \in 1..Len(login.steps) :
          /\ login.steps[i] = "callback" => i = 3 /\ Answered(2, "form")
          /\ login.steps[i] = "exchange" => i = 4 /\ Answered(3, "code")
    /\ \A i \in 1..Len(login.answers) :
          login.answers[i] \in EarlyFailures =>
              /\ login.pc = "idle"
              /\ login.outcome = "AuthenticationError"
              /\ Len(login.steps) = i
              /\ Len(login.answers) = i
              /\ access_token = None /\ id_token = None /\ refresh_token = None
              /\ token_expires_at = None

\* C31's case happens: a login page with an action and no hidden input
\* ended the login after two requests.
C31_Witness ==
    /\ login.steps = <<"authorize", "login">>
    /\ login.answers = <<"answered", "no_hidden">>
    /\ login.outcome = "AuthenticationError"

-----------------------------------------------------------------------------
(* Claims about the order of the stages of a poll *)

-----------------------------------------------------------------------------
(* Claims about the requests of one data call *)

\* The requests of the current call that went to endpoint e.
RequestsTo(e) == { i \in 1..Len(http_log) : http_log[i].to = e }

\* C33: one data call sends at most one refresh request to the token
\* endpoint and at most one request to the data endpoint, the refresh
\* first; a call that ended in AuthenticationError after a failed refresh
\* has sent no data request, and no call retries.
C33_OneRefreshOneRequest ==
    /\ Cardinality(RequestsTo("token")) <= 1
    /\ Cardinality(RequestsTo("data")) <= 1
    /\ \A i \in RequestsTo("token"), j \in RequestsTo("data") : i < j
    /\ (call.pc = "idle" /\ result.op = "refresh" /\ result.outcome # "ok"
            /\ RequestsTo("token") # {})
         => (RequestsTo("data") = {} /\ call.outcome = result.outcome)

\* C33's case happens: the call refreshed, sent its data request with the
\* new token and ended in AuthenticationError; nothing was sent after that.
C33_Witness ==
    /\ call.pc = "idle"
    /\ call.outcome = "AuthenticationError"
    /\ Len(http_log) = 2
    /\ http_log[1].to = "token"
    /\ http_log[2].to = "data"

-----------------------------------------------------------------------------
(* Claims about the timestamps of the statistics *)

\* The entries whose period_from parses.
Parsed == SelectSeq(period_froms, LAMBDA t : t.parsed)

\* C34: every timestamp handed to the statistics store has the wall-clock
\* fields of its source period_from and carries the configured zone,
\* whatever marker the source carried: its instant is the source's wall
\* clock read in the configured zone.  The first timestamp of the batch,
\* which bounds the 24-hour lookback of the checkpoint, follows the same rule.
C34_ZoneReplacedNotConverted ==
    stamped # None =>
        LET out == Val(stamped)
        IN  /\ Len(out.start) = Len(Parsed)
            /\ \A i \in 1..Len(Parsed) :
                  /\ out.start[i].wall = Parsed[i].wall
                  /\ out.start[i].utcoffset = Some(default_time_zone)
                  /\ Instant(out.start[i]) = Parsed[i].wall - default_time_zone
            /\ period_froms[1].parsed =>
                  /\ out.window.first_entry_time.wall = period_froms[1].wall
                  /\ out.window.first_entry_time.utcoffset = Some(default_time_zone)
                  /\ out.window.lookback_end = out.window.first_entry_time
                  /\ out.window.lookback_start.wall = period_froms[1].wall - LOOKBACK_HOURS
                  /\ out.window.lookback_start.utcoffset = Some(default_time_zone)

\* C34's case happens: a source timestamp marked Z was imported under a zone
\* ten hours east with its wall clock kept, ten hours before the instant
\* the marker names.
C34_Witness ==
    /\ stamped # None
    /\ default_time_zone = 10
    /\ period_froms[1] = Datetime(1, Some(0))
    /\ Val(stamped).start[1] = Datetime(1, Some(10))
    /\ Instant(Val(stamped).start[1]) = Instant(period_froms[1]) - 10

-----------------------------------------------------------------------------
(* Claims about entries without a consumption *)

\* Some entry of the hourly answer has no consumption of the kinds given.
LacksConsumption(d, kinds) ==
    \/ \E i \in 1..Len(d.solar) : d.solar[i].consumption.kind \in kinds
    \/ \E i \in 1..Len(d.export) : d.export[i].consumption.kind \in kinds

\* No solar entry of the answer has a null charge.
ChargesPresent(d) == \A i \in 1..Len(d.solar) : d.solar[i].charge.kind # "null"

\* C35, for the hourly reducer: an entry whose consumption is absent or null
\* counts as consumption 0; the series and their totals are still produced
\* and nothing is raised.
C35_MissingConsumptionTolerated ==
    (hourly_processed # None /\ ChargesPresent(hourly_data)
        /\ LacksConsumption(hourly_data, {"absent", "null"}))
      => /\ ~Val(hourly_processed).raised
         /\ HourlyPartition(hourly_data, Val(hourly_processed))

\* What the code tolerates: an entry without the consumption key counts as
\* 0, as long as no entry of the answer carries a null consumption.
C35_AbsentConsumptionTolerated ==
    (hourly_processed # None /\ ChargesPresent(hourly_data)
        /\ LacksConsumption(hourly_data, {"absent"})
        /\ ~LacksConsumption(hourly_data, {"null"}))
      => /\ ~Val(hourly_processed).raised
         /\ HourlyPartition(hourly_data, Val(hourly_processed))

\* An answer with a null consumption has been reduced: the call raised and
\* returned no series.
C35_NullConsumptionRaised ==
    /\ hourly_processed # None
    /\ ChargesPresent(hourly_data)
    /\ LacksConsumption(hourly_data, {"null"})
    /\ Val(hourly_processed) = HourlyRaised

-----------------------------------------------------------------------------
(* Claims about the handlers of a content-type error *)

\* The last call got a successful status and response.json() raised
\* aiohttp.ContentTypeError.
ContentTypeErrorRaised == AnsweredOk /\ call.resp.ctype = "mixed"

\* C36: in each data operation a ContentTypeError raised by response.json()
\* is reported as AuthenticationError, by the handler written for it.
C36_ContentTypeErrorIsAuthenticationError ==
    \A op \in Operations :
        (ContentTypeErrorRaised /\ call.op = op) => call.outcome = "AuthenticationError"

\* What the code does: the handler of ClientResponseError comes first and
\* reports the ContentTypeError as CommunicationError, in every operation.
C36_ContentTypeErrorIsCommunicationError ==
    \A op \in Operations :
        (ContentTypeErrorRaised /\ call.op = op) => call.outcome = "CommunicationError"

-----------------------------------------------------------------------------
(* Claims about the expiry of a token loaded at setup *)

\* The expiry of the persisted access token: the time it was issued plus
\* its expires_in, else its exp claim; None when it carries neither.
real_expiry(entry) ==
    IF Truthy(entry.blob.expires_in) THEN Some(entry.issued_at + Val(entry.blob.expires_in))
    ELSE IF IsJwt(entry.blob.n) THEN JwtExp(entry.blob.n)
    ELSE None

\* The persisted access token has expired or does so within the buffer.
PersistedStale ==
    /\ real_expiry(config_entry) # None
    /\ clock >= Val(real_expiry(config_entry)) - EXPIRY_BUFFER

\* C37: once async_setup_entry has loaded the persisted tokens, a token
\* whose real expiry is past or within five minutes counts as expired.
C37_StaleTokenCountsExpired ==
    (setup = "loaded" /\ PersistedStale) => token_expired

\* What the code ensures: an entry without expires_in (the manual kind, or
\* an OAuth2 answer that had none) is judged by its exp claim.
C37_StaleByExpClaim ==
    (setup = "loaded" /\ PersistedStale /\ config_entry.blob.expires_in = None)
        => token_expired

\* A stale token has been loaded as fresh: setup goes on without a refresh.
C37_StaleLoadedAsFresh ==
    /\ setup = "loaded"
    /\ PersistedStale
    /\ ~token_expired
    /\ token_expires_at = Some(clock + Val(config_entry.blob.expires_in))

-----------------------------------------------------------------------------
(* Claims about the timers across setup, unload and reload *)

\* The number of 02:00 timers armed for the account, over all coordinators.
RECURSIVE ArmedUpTo(_)
ArmedUpTo(g) == IF g = 0 THEN 0 ELSE timers[g].armed + ArmedUpTo(g - 1)

ArmedTimers == ArmedUpTo(MaxSetups)

\* The entry is unloaded and no poll of an earlier coordinator is running.
UnloadedAndQuiet ==
    /\ setup_pc = "not loaded"
    /\ \A g \in Coordinators : ~scheduled_poll[g]

\* C38: whatever setups, unloads and reloads have run, at most one 02:00
\* timer is armed for the account, and while the entry is unloaded none is.
C38_NoTimerSurvivesUnload ==
    /\ ArmedTimers <= 1
    /\ UnloadedAndQuiet => ArmedTimers = 0

\* What does hold: an unload that finds no scheduled poll in flight leaves
\* the coordinator without an armed timer, the stored handle having been
\* called by the inherited coordinator.
C38_QuietUnloadDisarms ==
    [][(AsyncUnloadEntryTimers /\ ~scheduled_poll[coordinator])
          => timers'[coordinator].armed = 0]_vars

\* An unloaded coordinator has armed its timer again, next to the timer of
\* the coordinator that the reload created.
C38_TwoTimersArmed ==
    /\ ArmedTimers = 2
    /\ unloaded[1]
    /\ timers[1].armed = 1

-----------------------------------------------------------------------------
(* Claims about the order of the steps of async_setup_entry *)

\* Coordinator g has its timer armed, is stored in hass.data, or is the
\* one the registered refresh_data handler refreshes.
InService(g) ==
    \/ timers[g].armed > 0
    \/ scheduled_poll[g]
    \/ hass_data = g
    \/ services = g

\* No setup has got as far as arming a timer yet.
NeverLoaded == \A g \in Coordinators : ~first_refresh_ok[g]

\* A step of async_setup_entry ends the setup with an error.
SetupFails == setup_pc \in SetupSteps /\ setup_pc' = "failed"

-----------------------------------------------------------------------------
(* Claims about concurrent token refreshes *)

\* The callers whose refresh request is in flight.
Refreshing == {r \in Runners : call_pc[r] = "refreshing"}

\* C39: for one client at most one refresh request is in flight; the token
\* it carries is the one the token endpoint accepts, so no refresh is turned
\* down because another call has used the same stored token, and the stored
\* refresh token is never replaced by an older one.
C39_OneRefreshInFlight ==
    /\ [](Cardinality(Refreshing) <= 1)
    /\ [](\A r \in Refreshing : sent_refresh_token[r] = server_refresh_token)
    /\ [](~refresh_rejected)
    /\ [][held_refresh_token' >= held_refresh_token]_vars

\* A caller refreshes with a token that an earlier refresh of another
\* caller obtained, after a request had arrived during a refresh.
C39_Witness ==
    /\ requests_dropped
    /\ \E r \in Refreshing :
          /\ last_refresher \notin {"none", r}
          /\ sent_refresh_token[r] >= 1

====
